---- MODULE Spec2Model ----
(***************************************************************************)
(* md-to-html: markdown with mermaid fences -> self-contained HTML.        *)
(*                                                                         *)
(* Text is modelled character by character: a string is a sequence of      *)
(* one-character strings, offsets are 0-based as in JavaScript, and the    *)
(* regular expressions and String.prototype.replace are operators that     *)
(* compute what the engine computes.                                       *)
(***************************************************************************)
EXTENDS Integers, Sequences, FiniteSets, TLC

(***************************************************************************)
(* Bounds of the model.                                                    *)
(***************************************************************************)
MaxPieces == 3      \* pieces concatenated into one markdown input
MaxIters == 4       \* loop iterations counted before the counter saturates
MaxTextPieces == 3  \* pieces concatenated into one code text
MaxPathPieces == 3  \* pieces concatenated into one input path
MaxHtmlPieces == 2  \* pieces concatenated into one HTML input
MaxDocPieces == 3   \* lines and fences concatenated into one document
MaxDiagrams == 2    \* diagram fences in one document
MaxProgramPieces == 2 \* lines and fences in the input file of a run
MaxTokenPieces == 2 \* lines and fences in a document holding token text
MaxCallers == 2     \* callers of highlightCodeBlocks on one converter
MaxHighlightCalls == 2 \* calls each of them makes
MaxBlocks == 1      \* code blocks in the text of one call
MaxRenderCalls == 3    \* renders of one renderer instance
MaxRescanPieces == 3   \* pieces of a text that is extracted and re-scanned

(***************************************************************************)
(* Strings.                                                                *)
(***************************************************************************)
Min(a, b) == IF a < b THEN a ELSE b

\* JavaScript \s and the characters String.prototype.trim strips
IsSpace(c) == c \in {" ", "\n", "\t", "\r"}

\* s.slice(from, to) for 0 <= from, 0-based, half-open
Slice(s, from, to) == SubSeq(s, from + 1, Min(to, Len(s)))

\* s.startsWith(lit, i)
StartsWithAt(s, i, lit) ==
    /\ i >= 0
    /\ i + Len(lit) <= Len(s)
    /\ \A k \in 1..Len(lit) : s[i + k] = lit[k]

\* s.indexOf(lit, from), -1 when absent
IndexOf(s, lit, from) ==
    LET hits == {i \in from..(Len(s) - Len(lit)) : StartsWithAt(s, i, lit)}
    IN  IF hits = {} THEN -1 ELSE CHOOSE i \in hits : \A j \in hits : i <= j

\* String.prototype.trim
Trim(s) ==
    LET keep == {i \in 1..Len(s) : ~IsSpace(s[i])}
    IN  IF keep = {} THEN <<>>
        ELSE LET lo == CHOOSE i \in keep : \A j \in keep : i <= j
                 hi == CHOOSE i \in keep : \A j \in keep : i >= j
             IN  SubSeq(s, lo, hi)

RECURSIVE Concat(_)
Concat(ss) == IF ss = <<>> THEN <<>> ELSE Head(ss) \o Concat(Tail(ss))

RECURSIVE DecimalDigits(_)
\* template-literal formatting of a non-negative integer
DecimalDigits(n) ==
    LET d == <<"0", "1", "2", "3", "4", "5", "6", "7", "8", "9">>[(n % 10) + 1]
    IN  IF n < 10 THEN <<d>> ELSE DecimalDigits(n \div 10) \o <<d>>

(***************************************************************************)
(* The diagram fence pattern of extractMermaidDiagrams (three backquotes,   *)
(* mermaid, \s*, \n, a lazy body group, three backquotes; global flag).    *)
(***************************************************************************)
\* the backquote character (a string literal cannot hold it)
BQ == "BACKQUOTE"

FenceOpen == <<BQ, BQ, BQ, "m", "e", "r", "m", "a", "i", "d">>
FenceClose == <<BQ, BQ, BQ>>

NoMatch == [index |-> -1, end |-> -1, body |-> <<>>]

\* first offset >= i that holds no whitespace (end of the \s* run)
SpaceRunEnd(s, i) ==
    LET stops == {j \in i..Len(s) : j = Len(s) \/ ~IsSpace(s[j + 1])}
    IN  CHOOSE j \in stops : \A k \in stops : j <= k

\* a slip in the end offset: the closing delimiter left out of the match
MermaidMatchAtOpenEnded(s, i) ==
    IF ~StartsWithAt(s, i, FenceOpen) THEN NoMatch
    ELSE LET w == SpaceRunEnd(s, i + Len(FenceOpen))
             nls == {j \in (i + Len(FenceOpen))..(w - 1) : s[j + 1] = "\n"}
         IN  IF nls = {} THEN NoMatch
             ELSE LET bodyStart == (CHOOSE j \in nls : \A k \in nls : j >= k) + 1
                      close == IndexOf(s, FenceClose, bodyStart)
                  IN  IF close < 0 THEN NoMatch
                      ELSE [index |-> i,
                            end |-> close,
                            body |-> Slice(s, bodyStart, close)]

\* The match of the pattern anchored at offset i, or NoMatch.  The greedy
\* \s* backs off to the last newline of the whitespace run; the lazy body
\* stops at the nearest closing delimiter.
MermaidMatchAt(s, i) ==
    IF ~StartsWithAt(s, i, FenceOpen) THEN NoMatch
    ELSE LET w == SpaceRunEnd(s, i + Len(FenceOpen))
             nls == {j \in (i + Len(FenceOpen))..(w - 1) : s[j + 1] = "\n"}
         IN  IF nls = {} THEN NoMatch
             ELSE LET bodyStart == (CHOOSE j \in nls : \A k \in nls : j >= k) + 1
                      close == IndexOf(s, FenceClose, bodyStart)
                  IN  IF close < 0 THEN NoMatch
                      ELSE [index |-> i,
                            end |-> close + Len(FenceClose),
                            body |-> Slice(s, bodyStart, close)]

\* pattern.exec(s) with pattern.lastIndex = from: the leftmost match
MermaidExec(s, from) ==
    LET hits == {i \in from..Len(s) : MermaidMatchAt(s, i) # NoMatch}
    IN  IF hits = {} THEN NoMatch
        ELSE MermaidMatchAt(s, CHOOSE i \in hits : \A j \in hits : i <= j)

RECURSIVE FencesFrom(_, _)
\* the successive matches of the pattern in s from offset from on: the
\* fences of s in text order
FencesFrom(s, from) ==
    LET m == MermaidExec(s, from)
    IN  IF m = NoMatch THEN <<>> ELSE <<m>> \o FencesFrom(s, m.end)

\* a slip in the numbering: ids counted from one
DiagramIdFromOne(n) == <<"d", "i", "a", "g", "r", "a", "m", "_">> \o DecimalDigits(n + 1)

\* the template literal diagram_${n}
DiagramId(n) == <<"d", "i", "a", "g", "r", "a", "m", "_">> \o DecimalDigits(n)

(***************************************************************************)
(* Inputs: markdown texts are concatenations of these pieces.              *)
(***************************************************************************)
NL == <<"\n">>
FullFence == FenceOpen \o NL \o <<"a">> \o NL \o FenceClose
PaddedFence == FenceOpen \o <<" ">> \o NL \o <<" ", "b", " ">> \o NL \o FenceClose
BlankFence == FenceOpen \o NL \o NL \o FenceClose

MdPieces == {<<"a">>, NL, <<" ">>, FenceOpen, FenceClose,
             FullFence, PaddedFence, BlankFence}

RECURSIVE PieceSeqs(_, _)
PieceSeqs(P, n) ==
    IF n = 0 THEN {<<>>}
    ELSE LET shorter == PieceSeqs(P, n - 1)
         IN  shorter \cup {<<p>> \o q : p \in P, q \in {r \in shorter : Len(r) = n - 1}}

Markdowns == {Concat(ps) : ps \in PieceSeqs(MdPieces, MaxPieces)}

(***************************************************************************)
(* decodeHtmlEntities and the escaping it is meant to undo.                *)
(***************************************************************************)
RECURSIVE ReplaceAll(_, _, _)
\* s.replace(/lit/g, rep) for a literal pattern and a replacement without $:
\* the matches left to right, each search resumed after the match
ReplaceAll(s, lit, rep) ==
    LET i == IndexOf(s, lit, 0)
    IN  IF i < 0 THEN s
        ELSE Slice(s, 0, i) \o rep
               \o ReplaceAll(Slice(s, i + Len(lit), Len(s)), lit, rep)

EntLt == <<"&", "l", "t", ";">>
EntGt == <<"&", "g", "t", ";">>
EntAmp == <<"&", "a", "m", "p", ";">>
EntQuot == <<"&", "q", "u", "o", "t", ";">>
EntApos == <<"&", "#", "3", "9", ";">>

\* lines 183-190, the five replaces in the order of the source
decodeHtmlEntities(encoded) ==
    ReplaceAll(
      ReplaceAll(
        ReplaceAll(
          ReplaceAll(
            ReplaceAll(encoded, EntLt, <<"<">>),
            EntGt, <<">">>),
          EntAmp, <<"&">>),
        EntQuot, <<"\"">>),
      EntApos, <<"'">>)

\* HTML escaping of the five characters, one character at a time
EscapeChar(c) ==
    CASE c = "&" -> EntAmp
      [] c = "<" -> EntLt
      [] c = ">" -> EntGt
      [] c = "\"" -> EntQuot
      [] c = "'" -> EntApos
      [] OTHER -> <<c>>

RECURSIVE EncodeHtmlEntities(_)
EncodeHtmlEntities(s) ==
    IF s = <<>> THEN <<>>
    ELSE IF Len(s) = 1 THEN EscapeChar(s[1])
    ELSE EncodeHtmlEntities(SubSeq(s, 1, Len(s) \div 2))
           \o EncodeHtmlEntities(SubSeq(s, Len(s) \div 2 + 1, Len(s)))

\* code texts: the five characters, ordinary characters, entity tails
TextPieces == {<<"&">>, <<"<">>, <<">">>, <<"\"">>, <<"'">>,
               <<"a">>, <<";">>, <<"#">>, <<"3", "9">>,
               Tail(EntLt), Tail(EntGt), Tail(EntAmp), Tail(EntQuot), Tail(EntApos)}

Texts == {Concat(ps) : ps \in PieceSeqs(TextPieces, MaxTextPieces)}

(***************************************************************************)
(* The output path of convert.                                             *)
(***************************************************************************)
\* the value undefined of an omitted argument
Undefined == <<"undefined">>

\* /\.md$/i matches at offset i: a dot, m or M, d or D, end of input
MdSuffixAt(path, i) ==
    /\ i >= 0
    /\ i + 3 = Len(path)
    /\ path[i + 1] = "."
    /\ path[i + 2] \in {"m", "M"}
    /\ path[i + 3] \in {"d", "D"}

DotHtml == <<".", "h", "t", "m", "l">>

\* markdownFile.replace(/\.md$/i, ".html")
ReplaceMdSuffix(path) ==
    IF MdSuffixAt(path, Len(path) - 3)
    THEN Slice(path, 0, Len(path) - 3) \o DotHtml
    ELSE path

\* outputFile ?? markdownFile.replace(/\.md$/i, ".html")
ResolveOutput(markdownFile_, outputFile_) ==
    IF outputFile_ # Undefined THEN outputFile_ ELSE ReplaceMdSuffix(markdownFile_)

PathPieces == {<<"d", "/">>, <<"a">>, <<".">>, <<"m", "d">>,
               <<".", "m", "d">>, <<".", "M", "D">>, <<".", "M", "d">>,
               <<".", "t", "x", "t">>,
               <<".", "m", "a", "r", "k", "d", "o", "w", "n">>}

\* input paths: at least one piece
InputPaths == {Concat(ps) : ps \in PieceSeqs(PathPieces, MaxPathPieces)} \ {<<>>}

OutputPaths == {Undefined, <<"o", ".", "h", "t", "m", "l">>, <<"o", ".", "m", "d">>}

(***************************************************************************)
(* String.prototype.replace(pattern, replacement) with a string pattern:   *)
(* the first occurrence is replaced, and the replacement string is         *)
(* expanded by GetSubstitution ($$, $&, $ backquote, $'; with no capture   *)
(* groups $1..$99 and $< stay as they are).                                *)
(***************************************************************************)
RECURSIVE GetSubstitution(_, _, _, _)
GetSubstitution(rep, matched, before, after) ==
    LET hits == {k \in 1..(Len(rep) - 1) :
                    rep[k] = "$" /\ rep[k + 1] \in {"$", "&", BQ, "'"}}
    IN  IF hits = {} THEN rep
        ELSE LET k == CHOOSE i \in hits : \A j \in hits : i <= j
             IN  SubSeq(rep, 1, k - 1)
                   \o (CASE rep[k + 1] = "$" -> <<"$">>
                          [] rep[k + 1] = "&" -> matched
                          [] rep[k + 1] = BQ -> before
                          [] rep[k + 1] = "'" -> after)
                   \o GetSubstitution(SubSeq(rep, k + 2, Len(rep)),
                                      matched, before, after)

ReplaceFirst(s, pat, rep) ==
    LET i == IndexOf(s, pat, 0)
    IN  IF i < 0 THEN s
        ELSE LET before == Slice(s, 0, i)
                 after == Slice(s, i + Len(pat), Len(s))
             IN  before \o GetSubstitution(rep, pat, before, after) \o after

(***************************************************************************)
(* The code block pattern of highlightCodeBlocks, lines 283-284.           *)
(***************************************************************************)
WordChars ==
    {"a", "b", "c", "d", "e", "f", "g", "h", "i", "j", "k", "l", "m",
     "n", "o", "p", "q", "r", "s", "t", "u", "v", "w", "x", "y", "z",
     "A", "B", "C", "D", "E", "F", "G", "H", "I", "J", "K", "L", "M",
     "N", "O", "P", "Q", "R", "S", "T", "U", "V", "W", "X", "Y", "Z",
     "0", "1", "2", "3", "4", "5", "6", "7", "8", "9", "_"}

PreCode == <<"<", "p", "r", "e", ">", "<", "c", "o", "d", "e">>
ClassLanguage ==
    <<"c", "l", "a", "s", "s", "=", "\"", "l", "a", "n", "g", "u", "a", "g", "e", "-">>
CodePreEnd == <<"<", "/", "c", "o", "d", "e", ">", "<", "/", "p", "r", "e", ">">>

NoBlock == [index |-> -1, end |-> -1, language |-> <<>>, encodedCode |-> <<>>]

\* first offset >= i that holds no word character or hyphen (end of [\w-]+)
LanguageRunEnd(s, i) ==
    LET stops == {j \in i..Len(s) : j = Len(s) \/ s[j + 1] \notin WordChars \cup {"-"}}
    IN  CHOOSE j \in stops : \A k \in stops : j <= k

\* the match of the pattern anchored at offset i, or NoBlock
CodeBlockMatchAt(s, i) ==
    IF ~StartsWithAt(s, i, PreCode) THEN NoBlock
    ELSE LET sp == SpaceRunEnd(s, i + Len(PreCode))
         IN  IF sp = i + Len(PreCode) \/ ~StartsWithAt(s, sp, ClassLanguage)
             THEN NoBlock
             ELSE LET lg == sp + Len(ClassLanguage)
                      le == LanguageRunEnd(s, lg)
                  IN  IF le = lg \/ ~StartsWithAt(s, le, <<"\"">>) THEN NoBlock
                      ELSE LET gt == IndexOf(s, <<">">>, le + 1)
                               close == IF gt < 0 THEN -1
                                        ELSE IndexOf(s, CodePreEnd, gt + 1)
                           IN  IF close < 0 THEN NoBlock
                               ELSE [index |-> i,
                                     end |-> close + Len(CodePreEnd),
                                     language |-> Slice(s, lg, le),
                                     encodedCode |-> Slice(s, gt + 1, close)]

\* codeBlockPattern.exec(s) with lastIndex = from
CodeBlockExec(s, from) ==
    LET hits == {i \in from..Len(s) : CodeBlockMatchAt(s, i) # NoBlock}
    IN  IF hits = {} THEN NoBlock
        ELSE CodeBlockMatchAt(s, CHOOSE i \in hits : \A j \in hits : i <= j)

\* the template literal CODE_BLOCK_PLACEHOLDER_${placeholderIndex++}
CodePlaceholder(n) ==
    <<"C", "O", "D", "E", "_", "B", "L", "O", "C", "K", "_", "P", "L", "A", "C", "E", "H", "O", "L", "D", "E", "R", "_">>
      \o DecimalDigits(n)

RECURSIVE ScanCodeBlocks(_, _, _)
\* lines 286-304: the list built by the extraction loop
ScanCodeBlocks(s, from, placeholderIndex) ==
    LET m == CodeBlockExec(s, from)
    IN  IF m = NoBlock THEN <<>>
        ELSE <<[fullMatch |-> Slice(s, m.index, m.end),
                language |-> m.language,
                code |-> decodeHtmlEntities(m.encodedCode),
                placeholder |-> CodePlaceholder(placeholderIndex)]>>
             \o ScanCodeBlocks(s, m.end, placeholderIndex + 1)

\* highlighter.codeToHtml(code, ...): markup around the escaped code text
ShikiOpen ==
    <<"<", "p", "r", "e", " ", "c", "l", "a", "s", "s", "=", "\"", "s", "h", "i", "k", "i", "\"", ">", "<", "c", "o", "d", "e", ">">>
ShikiClose == <<"<", "/", "c", "o", "d", "e", ">", "<", "/", "p", "r", "e", ">">>
CodeToHtml(code) == ShikiOpen \o EncodeHtmlEntities(code) \o ShikiClose

\* line 339: codeBlocks.find((cb) => cb.placeholder === placeholder)
FindBlock(blocks, placeholder) ==
    LET hits == {k \in 1..Len(blocks) : blocks[k].placeholder = placeholder}
    IN  IF hits = {} THEN <<>>
        ELSE blocks[CHOOSE k \in hits : \A j \in hits : k <= j].fullMatch

RECURSIVE ExtractBlocks(_, _)
\* lines 351-354: each block replaced by its placeholder
ExtractBlocks(h, blocks) ==
    IF blocks = <<>> THEN h
    ELSE ExtractBlocks(ReplaceFirst(h, Head(blocks).fullMatch, Head(blocks).placeholder),
                       Tail(blocks))

RECURSIVE SubstituteAll(_, _)
\* lines 360-362 (and 431-433): each placeholder replaced by its markup,
\* in the iteration order of the map
SubstituteAll(h, entries) ==
    IF entries = <<>> THEN h
    ELSE SubstituteAll(ReplaceFirst(h, Head(entries).placeholder, Head(entries).markup),
                       Tail(entries))

\* HTML inputs: paragraphs and code blocks as the markdown engine emits them
CodeBlockHtml(language, encodedCode) ==
    PreCode \o <<" ">> \o ClassLanguage \o language \o <<"\"", ">">>
      \o encodedCode \o CodePreEnd

CodeBodies == {<<"a">>, <<"9">>, <<"$", "$">>, <<"$", "'">>, <<"$", BQ>>,
               <<"$", "1">>, <<"$">> \o EntAmp, EntQuot \o <<"x">> \o EntQuot}

HtmlPieces ==
    {<<"<", "p", ">", "a", "<", "/", "p", ">">>, NL}
      \cup {CodeBlockHtml(<<"p", "y">>, b) : b \in CodeBodies}
      \cup {CodeBlockHtml(<<"Z", "-", "1">>, <<"b">>)}

Htmls == {Concat(ps) : ps \in PieceSeqs(HtmlPieces, MaxHtmlPieces)}

(***************************************************************************)
(* convertMarkdownToHtml, lines 374-439: the pieces of the assembler.      *)
(***************************************************************************)
\* the template literal MERMAID_PLACEHOLDER_${diagramId}
MermaidPlaceholder(diagramId) ==
    <<"M", "E", "R", "M", "A", "I", "D", "_", "P", "L", "A", "C", "E", "H", "O", "L", "D", "E", "R", "_">>
      \o diagramId

DivOpen ==
    <<"<", "d", "i", "v", " ", "s", "t", "y", "l", "e", "=", "\"", "m", "a", "x", "-", "w", "i", "d", "t", "h", ":", " ", "1", "0", "0", "%", ";", " ", "m", "a", "r", "g", "i", "n", ":", " ", "1", "e", "m", " ", "0", ";", "\"", ">">>
DivClose == <<"<", "/", "d", "i", "v", ">">>
ReadFailedNotice ==
    <<"<", "p", ">", "<", "e", "m", ">", "[", "M", "e", "r", "m", "a", "i", "d", " ", "d", "i", "a", "g", "r", "a", "m", " ", "-", " ", "f", "a", "i", "l", "e", "d", " ", "t", "o", " ", "r", "e", "a", "d", " ", "S", "V", "G", "]", "<", "/", "e", "m", ">", "<", "/", "p", ">">>
RenderFailedNotice ==
    <<"<", "p", ">", "<", "e", "m", ">", "[", "M", "e", "r", "m", "a", "i", "d", " ", "d", "i", "a", "g", "r", "a", "m", " ", "-", " ", "r", "e", "n", "d", "e", "r", "i", "n", "g", " ", "f", "a", "i", "l", "e", "d", "]", "<", "/", "e", "m", ">", "<", "/", "p", ">">>

\* wrapInHtmlDocument, lines 94-175: the static shell, its three fixed
\* parts each kept as one symbol
ShellHead == <<"<!DOCTYPE html><html lang=\"en\"><head>...<style>...">>
ShellBody == <<"</style></head><body>", "\n">>
ShellTail == <<"\n", "</body></html>">>
wrapInHtmlDocument(content, shikiStyles) ==
    ShellHead \o shikiStyles \o ShellBody \o content \o ShellTail

\* the temporary files: join(tempDir, diagramId + ".svg")
TempPath(diagramId) == <<"t", "m", "p", "/">> \o diagramId \o <<".", "s", "v", "g">>

NoFile == [path |-> <<>>, svg |-> <<>>, run |-> -1, code |-> <<>>]

\* the file at a path, or NoFile
FileAt(fs, path) ==
    IF \E f \in fs : f.path = path THEN CHOOSE f \in fs : f.path = path ELSE NoFile

\* a slip: the test match.index === startPos left out, the first fence taken
RescanForFirst(md, from, startPos) == MermaidExec(md, from)

RECURSIVE RescanFor(_, _, _)
\* lines 384-413: the inner scan, exec after exec until a match starts at
\* startPos or the pattern is exhausted
RescanFor(md, from, startPos) ==
    LET m == MermaidExec(md, from)
    IN  IF m = NoMatch THEN NoMatch
        ELSE IF m.index = startPos THEN m
        ELSE RescanFor(md, m.end, startPos)

\* lines 389-402: the markup that stands for one outcome
SvgHtml(imagePath, fs) ==
    IF imagePath # <<>>
    THEN IF FileAt(fs, imagePath) # NoFile
         THEN DivOpen \o FileAt(fs, imagePath).svg \o DivClose
         ELSE ReadFailedNotice
    ELSE RenderFailedNotice

\* Map.prototype.set on a map kept in insertion order
MapSet(entries, key, value) ==
    IF \E k \in 1..Len(entries) : entries[k].placeholder = key
    THEN [k \in 1..Len(entries) |->
            IF entries[k].placeholder = key
            THEN [placeholder |-> key, markup |-> value] ELSE entries[k]]
    ELSE Append(entries, [placeholder |-> key, markup |-> value])

\* lines 383-414 for one entry of imageReplacements: acc holds placeholders
\* and replacements
MatchEntry(md, e, fs, acc) ==
    LET m == RescanFor(md, 0, e.startPos)
    IN  IF m = NoMatch THEN acc
        ELSE [placeholders |->
                 MapSet(acc.placeholders, MermaidPlaceholder(e.diagramId),
                        SvgHtml(e.imagePath, fs)),
              replacements |->
                 Append(acc.replacements,
                        [start |-> m.index, end |-> m.end,
                         placeholder |-> MermaidPlaceholder(e.diagramId)])]

RECURSIVE InsertDescending(_, _)
InsertDescending(sorted, r) ==
    IF sorted = <<>> THEN <<r>>
    ELSE IF Head(sorted).start >= r.start
         THEN <<Head(sorted)>> \o InsertDescending(Tail(sorted), r)
         ELSE <<r>> \o sorted

RECURSIVE SortDescending(_)
\* line 417: replacements.sort((a, b) => b.start - a.start), stable
SortDescending(rs) ==
    IF rs = <<>> THEN <<>>
    ELSE InsertDescending(SortDescending(SubSeq(rs, 1, Len(rs) - 1)), rs[Len(rs)])

RECURSIVE SpliceAll(_, _)
\* lines 418-421: the slices, one replacement after the other
SpliceAll(content, rs) ==
    IF rs = <<>> THEN content
    ELSE SpliceAll(Slice(content, 0, Head(rs).start) \o Head(rs).placeholder
                     \o Slice(content, Head(rs).end, Len(content)),
                   Tail(rs))

\* micromark escapes these four characters in text
MicromarkEscapeChar(c) ==
    CASE c = "&" -> EntAmp
      [] c = "<" -> EntLt
      [] c = ">" -> EntGt
      [] c = "\"" -> EntQuot
      [] OTHER -> <<c>>

RECURSIVE MicromarkEscape(_)
MicromarkEscape(s) ==
    IF s = <<>> THEN <<>>
    ELSE IF Len(s) = 1 THEN MicromarkEscapeChar(s[1])
    ELSE MicromarkEscape(SubSeq(s, 1, Len(s) \div 2))
           \o MicromarkEscape(SubSeq(s, Len(s) \div 2 + 1, Len(s)))

\* lines 424-427: micromark on a text of plain words and tokens separated
\* by single line endings: one paragraph, the text escaped, the final line
\* ending kept
Micromark(text) ==
    IF Trim(text) = <<>> THEN <<>>
    ELSE <<"<", "p", ">">> \o MicromarkEscape(Trim(text)) \o <<"<", "/", "p", ">">>
           \o (IF text[Len(text)] = "\n" THEN NL ELSE <<>>)

\* highlightCodeBlocks as a function of the per-block outcomes (a block
\* without a stated outcome is highlighted)
HighlightCodeBlocksFn(h, oks) ==
    LET blocks == ScanCodeBlocks(h, 0, 0)
    IN  IF blocks = <<>> THEN h
        ELSE SubstituteAll(
               ExtractBlocks(h, blocks),
               [k \in 1..Len(blocks) |->
                  [placeholder |-> blocks[k].placeholder,
                   markup |-> IF k > Len(oks) \/ oks[k] THEN CodeToHtml(blocks[k].code)
                              ELSE FindBlock(blocks, blocks[k].placeholder)]])

(***************************************************************************)
(* Documents, and what extractMermaidDiagrams returns for them.            *)
(***************************************************************************)
DocPieces == {<<"a">> \o NL, FullFence \o NL, PaddedFence \o NL}

Docs == {d \in {Concat(ps) : ps \in PieceSeqs(DocPieces, MaxDocPieces)} :
            Len(FencesFrom(d, 0)) <= MaxDiagrams}

\* the DiagramInfo list of a document all of whose fences have a body
ExtractedRecords(md) ==
    LET fences == FencesFrom(md, 0)
    IN  [i \in 1..Len(fences) |->
           [diagramId |-> DiagramId(i - 1),
            mermaidCode |-> Trim(fences[i].body),
            startPos |-> fences[i].index,
            endPos |-> fences[i].end]]

\* what the rendering tool may leave in the output file
SvgContents == {<<"<", "s", "v", "g", ">", "a", "<", "/", "s", "v", "g", ">">>,
                <<"<", "s", "v", "g", ">", "$", "'", "<", "/", "s", "v", "g", ">">>,
                <<"<", "s", "v", "g", ">">> \o CodeBlockHtml(<<"p", "y">>, <<"a">>)
                  \o <<"<", "/", "s", "v", "g", ">">>}

\* per diagram: rendering failed, the artifact cannot be read, or a content
Outcomes == {<<"failed">>, <<"unreadable">>} \cup SvgContents

IterationOrders(n) == {f \in [1..n -> 1..n] : \A i, j \in 1..n : f[i] = f[j] => i = j}

\* the outcomes maps of a document, in every iteration order
OutcomeMaps(md) ==
    LET recs == ExtractedRecords(md)
        n == Len(recs)
    IN  {[entries |-> [k \in 1..n |->
                         [startPos |-> recs[perm[k]].startPos,
                          diagramId |-> recs[perm[k]].diagramId,
                          imagePath |-> IF out[perm[k]] = <<"failed">> THEN <<>>
                                        ELSE TempPath(recs[perm[k]].diagramId)]],
          files |-> {[path |-> TempPath(recs[i].diagramId), svg |-> out[i],
                      run |-> 0, code |-> recs[i].mermaidCode] :
                       i \in {j \in 1..n : out[j] \in SvgContents}}] :
            perm \in IterationOrders(n), out \in [1..n -> Outcomes]}

(***************************************************************************)
(* State.                                                                  *)
(***************************************************************************)
VARIABLES
    markdownContent,  \* extractMermaidDiagrams: the argument
    ex_pc,            \* extractMermaidDiagrams: position of the call
    match,            \* extractMermaidDiagrams: the current RegExpExecArray
    diagrams,         \* extractMermaidDiagrams: the records pushed so far
    iters,            \* loop bodies executed by the current call (saturating)
    calls,            \* calls of extractMermaidDiagrams made on the input
    firstResult,      \* what the first call returned
    de_pc,            \* decodeHtmlEntities: position of the round trip
    de_source,        \* the raw code text
    de_encoded,       \* the text as it stands in the HTML (escaped)
    de_decoded,       \* what decodeHtmlEntities returned
    pa_pc,            \* convert, output part: position
    markdownFile,     \* convert: the input path
    outputFile,       \* convert: the output path argument, or Undefined
    writtenTo,        \* the paths writeFile has written the document to
    returned,         \* what convert returned
    htmlContent,      \* convert: the document convertMarkdownToHtml returned
    writtenDoc,       \* the text of the last document written
    hl_pc,            \* highlightCodeBlocks: position of the call
    html,             \* highlightCodeBlocks: the argument
    codeBlocks,       \* highlightCodeBlocks: the CodeBlockInfo list
    highlightedBlocks, \* highlightCodeBlocks: the map, in insertion order
    blockOk,          \* per block: did codeToHtml return (TRUE) or throw
    highlightedHtml,  \* highlightCodeBlocks: the text being rewritten
    hl_result,        \* the html field of the value returned
    shikiHighlighter, \* the converter's highlighter field
    as_pc,            \* convertMarkdownToHtml: position of the call
    imageReplacements, \* the outcomes map, in iteration order
    files,            \* the files of the temporary directory
    as_k,             \* entries of imageReplacements already looked up
    placeholders,     \* convertMarkdownToHtml: the map, in insertion order
    replacements,     \* convertMarkdownToHtml: the MermaidReplacement list
    processedContent, \* convertMarkdownToHtml: the text being spliced
    as_htmlContent,   \* convertMarkdownToHtml: what micromark returned
    finalHtml,        \* convertMarkdownToHtml: placeholders substituted
    as_result,        \* the document convertMarkdownToHtml returned
    tempDir,          \* MermaidRenderer: the tempDir field, "null" or "dir"
    dirOnDisk,        \* the temporary directory exists in the file system
    rn_pc,            \* renderMermaidToSvg: position of the call
    rn_id,            \* renderMermaidToSvg: the diagramId argument
    rn_code,          \* renderMermaidToSvg: the mermaidCode argument
    rn_result,        \* renderMermaidToSvg: the path returned, <<>> for null
    rn_exit,          \* how the tool invocation of the call ended
    inFlight,         \* invocations of the rendering tool that have not ended
    runs,             \* invocations of the rendering tool started so far
    inputFileText,    \* the text of the input file
    cv_pc,            \* convert: position of the call
    cv_i,             \* convert: diagrams the render loop has dealt with
    renders,          \* the diagramIds of the render calls convert has made
    cli_pc,           \* the command handler of the CLI: position
    exitCode,         \* the exit code of the process, -1 while it runs
    cleanupCalls,     \* calls of renderer.cleanup() made
    sh_pc,            \* per caller: position of its highlightCodeBlocks call
    sh_blocks,        \* per caller: code blocks its call found
    sh_calls,         \* per caller: calls of highlightCodeBlocks made
    sh_result,        \* per caller: what its call returned
    createCalls,      \* invocations of createHighlighter
    createRejected,   \* invocations of createHighlighter that rejected
    everFound         \* some call has found a code block

exVars == <<markdownContent, ex_pc, match, diagrams, iters, calls, firstResult>>
deVars == <<de_pc, de_source, de_encoded, de_decoded>>
paVars == <<pa_pc, markdownFile, outputFile, writtenTo, returned, htmlContent,
            writtenDoc>>
hlVars == <<hl_pc, html, codeBlocks, highlightedBlocks, blockOk,
            highlightedHtml, hl_result, shikiHighlighter>>
asVars == <<as_pc, imageReplacements, files, as_k, placeholders, replacements,
            processedContent, as_htmlContent, finalHtml, as_result>>
rnVars == <<tempDir, dirOnDisk, rn_pc, rn_id, rn_code, rn_result, rn_exit, inFlight,
            runs>>
cvVars == <<inputFileText, cv_pc, cv_i, renders>>
cliVars == <<cli_pc, exitCode, cleanupCalls>>
shVars == <<sh_pc, sh_blocks, sh_calls, sh_result, createCalls, createRejected,
            everFound>>
vars == <<exVars, deVars, paVars, hlVars, asVars, rnVars, cvVars, cliVars, shVars>>

\* the value of a part of the state that a specification does not use
ExtractIdle ==
    /\ markdownContent = <<>>
    /\ ex_pc = "off"
    /\ match = NoMatch
    /\ diagrams = <<>>
    /\ iters = 0
    /\ calls = 0
    /\ firstResult = <<>>

DecodeIdle ==
    /\ de_pc = "off"
    /\ de_source = <<>>
    /\ de_encoded = <<>>
    /\ de_decoded = <<>>

PathIdle ==
    /\ pa_pc = "off"
    /\ markdownFile = <<>>
    /\ outputFile = Undefined
    /\ writtenTo = {}
    /\ returned = Undefined
    /\ htmlContent = <<>>
    /\ writtenDoc = <<>>

HighlightIdle ==
    /\ hl_pc = "off"
    /\ html = <<>>
    /\ codeBlocks = <<>>
    /\ highlightedBlocks = <<>>
    /\ blockOk = <<>>
    /\ highlightedHtml = <<>>
    /\ hl_result = <<>>
    /\ shikiHighlighter = "null"

AssembleIdle ==
    /\ as_pc = "off"
    /\ imageReplacements = <<>>
    /\ files = {}
    /\ as_k = 0
    /\ placeholders = <<>>
    /\ replacements = <<>>
    /\ processedContent = <<>>
    /\ as_htmlContent = <<>>
    /\ finalHtml = <<>>
    /\ as_result = <<>>

RenderIdle ==
    /\ tempDir = "null"
    /\ dirOnDisk = FALSE
    /\ rn_pc = "off"
    /\ rn_id = <<>>
    /\ rn_code = <<>>
    /\ rn_result = <<>>
    /\ rn_exit = "none"
    /\ inFlight = 0
    /\ runs = 0

ConvertIdle ==
    /\ inputFileText = <<>>
    /\ cv_pc = "off"
    /\ cv_i = 0
    /\ renders = <<>>

CliIdle ==
    /\ cli_pc = "off"
    /\ exitCode = -1
    /\ cleanupCalls = 0

\* the callers of highlightCodeBlocks on one converter instance
Callers == 1..MaxCallers

ShikiIdle ==
    /\ sh_pc = [c \in Callers |-> "off"]
    /\ sh_blocks = [c \in Callers |-> 0]
    /\ sh_calls = [c \in Callers |-> 0]
    /\ sh_result = [c \in Callers |-> "none"]
    /\ createCalls = 0
    /\ createRejected = 0
    /\ everFound = FALSE

\* the parts of the state only a whole run of the program uses
ProgramIdle == RenderIdle /\ ConvertIdle /\ CliIdle /\ ShikiIdle

programVars == <<rnVars, cvVars, cliVars>>
notExVars == <<deVars, shVars, paVars, hlVars, asVars, programVars>>
notDeVars == <<exVars, shVars, paVars, hlVars, asVars, programVars>>
notPaVars == <<exVars, deVars, shVars, hlVars, asVars, programVars>>
notHlVars == <<exVars, deVars, shVars, paVars, asVars, programVars>>
\* the assembler reads markdownContent and may create the highlighter
notAsVars == <<ex_pc, match, diagrams, iters, calls, firstResult, deVars, shVars, paVars,
               hl_pc, html, codeBlocks, highlightedBlocks, blockOk,
               highlightedHtml, hl_result, programVars>>

(***************************************************************************)
(* extractMermaidDiagrams, one action per statement group.                 *)
(***************************************************************************)
\* lines 247-250: fresh pattern (lastIndex 0), first exec
extractMermaidDiagrams_Call ==
    /\ ex_pc = "idle"
    /\ calls < 2
    /\ calls' = calls + 1
    /\ diagrams' = <<>>
    /\ iters' = 0
    /\ match' = MermaidExec(markdownContent, 0)
    /\ ex_pc' = "loop"
    /\ UNCHANGED <<markdownContent, firstResult>>
    /\ UNCHANGED notExVars

\* an empty trimmed body takes the continue statement, match left as it is
SkipEmptyBody(m) == m

\* lines 251-270: one pass through the while body
extractMermaidDiagrams_Loop ==
    /\ ex_pc = "loop"
    /\ match # NoMatch
    /\ iters' = Min(iters + 1, MaxIters)
    /\ LET mermaidCode == Trim(match.body)
       IN  IF mermaidCode = <<>>
           THEN /\ match' = SkipEmptyBody(match)
                /\ UNCHANGED diagrams
           ELSE /\ diagrams' = Append(diagrams,
                                      [diagramId |-> DiagramId(Len(diagrams)),
                                       mermaidCode |-> mermaidCode,
                                       startPos |-> match.index,
                                       endPos |-> match.end])
                /\ match' = MermaidExec(markdownContent, match.end)
    /\ UNCHANGED <<markdownContent, ex_pc, calls, firstResult>>
    /\ UNCHANGED notExVars

\* line 272: the loop condition failed, return diagrams
extractMermaidDiagrams_Return ==
    /\ ex_pc = "loop"
    /\ match = NoMatch
    /\ ex_pc' = "done"
    /\ firstResult' = IF calls = 1 THEN diagrams ELSE firstResult
    /\ UNCHANGED <<markdownContent, match, diagrams, iters, calls>>
    /\ UNCHANGED notExVars

\* the caller calls the function again on the same input
extractMermaidDiagrams_Again ==
    /\ ex_pc = "done"
    /\ calls < 2
    /\ ex_pc' = "idle"
    /\ UNCHANGED <<markdownContent, match, diagrams, iters, calls, firstResult>>
    /\ UNCHANGED notExVars

InitExtract ==
    /\ markdownContent \in Markdowns
    /\ ex_pc = "idle"
    /\ match = NoMatch
    /\ diagrams = <<>>
    /\ iters = 0
    /\ calls = 0
    /\ firstResult = <<>>
    /\ DecodeIdle
    /\ PathIdle
    /\ HighlightIdle
    /\ AssembleIdle
    /\ ProgramIdle

NextExtract ==
    \/ extractMermaidDiagrams_Call
    \/ extractMermaidDiagrams_Loop
    \/ extractMermaidDiagrams_Return
    \/ extractMermaidDiagrams_Again

SpecExtract == InitExtract /\ [][NextExtract]_vars

(***************************************************************************)
(* The round trip of a code text: escaped into the HTML, then decoded by   *)
(* highlightCodeBlocks before it is handed to the highlighter.             *)
(***************************************************************************)
\* the text as the HTML holds it
Decode_Escape ==
    /\ de_pc = "source"
    /\ de_encoded' = EncodeHtmlEntities(de_source)
    /\ de_pc' = "encoded"
    /\ UNCHANGED <<de_source, de_decoded>>
    /\ UNCHANGED notDeVars

\* line 294: const code = decodeHtmlEntities(encodedCode)
Decode_Call ==
    /\ de_pc = "encoded"
    /\ de_decoded' = decodeHtmlEntities(de_encoded)
    /\ de_pc' = "decoded"
    /\ UNCHANGED <<de_source, de_encoded>>
    /\ UNCHANGED notDeVars

InitDecode ==
    /\ de_pc = "source"
    /\ de_source \in Texts
    /\ de_encoded = <<>>
    /\ de_decoded = <<>>
    /\ ExtractIdle
    /\ PathIdle
    /\ HighlightIdle
    /\ AssembleIdle
    /\ ProgramIdle

NextDecode ==
    \/ Decode_Escape
    \/ Decode_Call

SpecDecode == InitDecode /\ [][NextDecode]_vars

(***************************************************************************)
(* convert, lines 476-485: the output path, the write, the return.         *)
(***************************************************************************)
\* lines 477-478: writeFile(output, htmlContent) succeeds
convert_WriteOutput ==
    /\ pa_pc = "assembled"
    /\ writtenTo' = writtenTo \cup {ResolveOutput(markdownFile, outputFile)}
    /\ writtenDoc' = htmlContent
    /\ pa_pc' = "written"
    /\ UNCHANGED <<markdownFile, outputFile, returned, htmlContent>>
    /\ UNCHANGED notPaVars

\* line 478: writeFile rejects, convert rejects with it
convert_WriteFails ==
    /\ pa_pc = "assembled"
    /\ pa_pc' = "threw"
    /\ UNCHANGED <<markdownFile, outputFile, writtenTo, returned, htmlContent,
                   writtenDoc>>
    /\ UNCHANGED notPaVars

\* lines 480-485: return output
convert_ReturnOutput ==
    /\ pa_pc = "written"
    /\ returned' = ResolveOutput(markdownFile, outputFile)
    /\ pa_pc' = "returned"
    /\ UNCHANGED <<markdownFile, outputFile, writtenTo, htmlContent, writtenDoc>>
    /\ UNCHANGED notPaVars

InitPath ==
    /\ pa_pc = "assembled"
    /\ markdownFile \in InputPaths
    /\ outputFile \in OutputPaths
    /\ writtenTo = {}
    /\ returned = Undefined
    /\ htmlContent = wrapInHtmlDocument(<<>>, <<>>)
    /\ writtenDoc = <<>>
    /\ ExtractIdle
    /\ DecodeIdle
    /\ HighlightIdle
    /\ AssembleIdle
    /\ ProgramIdle

NextPath ==
    \/ convert_WriteOutput
    \/ convert_WriteFails
    \/ convert_ReturnOutput

SpecPath == InitPath /\ [][NextPath]_vars

(***************************************************************************)
(* highlightCodeBlocks, lines 281-365.                                     *)
(***************************************************************************)
\* lines 283-304: collect the code blocks
highlightCodeBlocks_Scan ==
    /\ hl_pc = "called"
    /\ codeBlocks' = ScanCodeBlocks(html, 0, 0)
    /\ hl_pc' = "scanned"
    /\ UNCHANGED <<html, highlightedBlocks, blockOk, highlightedHtml,
                   hl_result, shikiHighlighter>>
    /\ UNCHANGED notHlVars

\* lines 307-309: no block, return the input
highlightCodeBlocks_NoBlocks ==
    /\ hl_pc = "scanned"
    /\ Len(codeBlocks) = 0
    /\ hl_result' = html
    /\ hl_pc' = "returned"
    /\ UNCHANGED <<html, codeBlocks, highlightedBlocks, blockOk,
                   highlightedHtml, shikiHighlighter>>
    /\ UNCHANGED notHlVars

\* line 312 and lines 219-238: the highlighter is there or is created
getShikiHighlighter_Ready ==
    /\ hl_pc = "scanned"
    /\ Len(codeBlocks) > 0
    /\ shikiHighlighter' = "highlighter"
    /\ hl_pc' = "highlighting"
    /\ UNCHANGED <<html, codeBlocks, highlightedBlocks, blockOk,
                   highlightedHtml, hl_result>>
    /\ UNCHANGED notHlVars

\* lines 231-235: createHighlighter rejects, the error is rethrown
getShikiHighlighter_Throws ==
    /\ hl_pc = "scanned"
    /\ Len(codeBlocks) > 0
    /\ shikiHighlighter = "null"
    /\ hl_pc' = "threw"
    /\ UNCHANGED <<html, codeBlocks, highlightedBlocks, blockOk,
                   highlightedHtml, hl_result, shikiHighlighter>>
    /\ UNCHANGED notHlVars

\* lines 319-343: one block; codeToHtml returns markup or throws and the
\* catch clause stores the original block
highlightCodeBlocks_Highlight ==
    /\ hl_pc = "highlighting"
    /\ Len(highlightedBlocks) < Len(codeBlocks)
    /\ LET block == codeBlocks[Len(highlightedBlocks) + 1]
       IN  \E ok \in BOOLEAN :
              /\ highlightedBlocks' =
                    Append(highlightedBlocks,
                           [placeholder |-> block.placeholder,
                            markup |-> IF ok THEN CodeToHtml(block.code)
                                       ELSE FindBlock(codeBlocks, block.placeholder)])
              /\ blockOk' = Append(blockOk, ok)
    /\ UNCHANGED <<hl_pc, html, codeBlocks, highlightedHtml, hl_result,
                   shikiHighlighter>>
    /\ UNCHANGED notHlVars

\* lines 351-354: blocks out, placeholders in
highlightCodeBlocks_Extract ==
    /\ hl_pc = "highlighting"
    /\ Len(highlightedBlocks) = Len(codeBlocks)
    /\ highlightedHtml' = ExtractBlocks(html, codeBlocks)
    /\ hl_pc' = "extracted"
    /\ UNCHANGED <<html, codeBlocks, highlightedBlocks, blockOk, hl_result,
                   shikiHighlighter>>
    /\ UNCHANGED notHlVars

\* lines 360-364: placeholders out, markup in, return
highlightCodeBlocks_Substitute ==
    /\ hl_pc = "extracted"
    /\ highlightedHtml' = SubstituteAll(highlightedHtml, highlightedBlocks)
    /\ hl_result' = highlightedHtml'
    /\ hl_pc' = "returned"
    /\ UNCHANGED <<html, codeBlocks, highlightedBlocks, blockOk, shikiHighlighter>>
    /\ UNCHANGED notHlVars

InitHighlight ==
    /\ hl_pc = "called"
    /\ html \in Htmls
    /\ codeBlocks = <<>>
    /\ highlightedBlocks = <<>>
    /\ blockOk = <<>>
    /\ highlightedHtml = <<>>
    /\ hl_result = <<>>
    /\ shikiHighlighter = "null"
    /\ ExtractIdle
    /\ DecodeIdle
    /\ PathIdle
    /\ AssembleIdle
    /\ ProgramIdle

NextHighlight ==
    \/ highlightCodeBlocks_Scan
    \/ highlightCodeBlocks_NoBlocks
    \/ getShikiHighlighter_Ready
    \/ getShikiHighlighter_Throws
    \/ highlightCodeBlocks_Highlight
    \/ highlightCodeBlocks_Extract
    \/ highlightCodeBlocks_Substitute

SpecHighlight == InitHighlight /\ [][NextHighlight]_vars

(***************************************************************************)
(* convertMarkdownToHtml, lines 374-439.                                   *)
(***************************************************************************)
\* lines 383-414, one entry of imageReplacements
convertMarkdownToHtml_Match ==
    /\ as_pc = "matching"
    /\ as_k < Len(imageReplacements)
    /\ LET acc == MatchEntry(markdownContent, imageReplacements[as_k + 1], files,
                             [placeholders |-> placeholders,
                              replacements |-> replacements])
       IN  /\ placeholders' = acc.placeholders
           /\ replacements' = acc.replacements
    /\ as_k' = as_k + 1
    /\ UNCHANGED <<as_pc, imageReplacements, files, processedContent,
                   as_htmlContent, finalHtml, as_result>>
    /\ UNCHANGED <<markdownContent, shikiHighlighter>>
    /\ UNCHANGED notAsVars

\* lines 416-421: sort, then splice the placeholders into the text
convertMarkdownToHtml_Splice ==
    /\ as_pc = "matching"
    /\ as_k = Len(imageReplacements)
    /\ replacements' = SortDescending(replacements)
    /\ processedContent' = SpliceAll(processedContent, replacements')
    /\ as_pc' = "spliced"
    /\ UNCHANGED <<imageReplacements, files, as_k, placeholders,
                   as_htmlContent, finalHtml, as_result>>
    /\ UNCHANGED <<markdownContent, shikiHighlighter>>
    /\ UNCHANGED notAsVars

\* lines 423-427
convertMarkdownToHtml_Micromark ==
    /\ as_pc = "spliced"
    /\ as_htmlContent' = Micromark(processedContent)
    /\ as_pc' = "parsed"
    /\ UNCHANGED <<imageReplacements, files, as_k, placeholders, replacements,
                   processedContent, finalHtml, as_result>>
    /\ UNCHANGED <<markdownContent, shikiHighlighter>>
    /\ UNCHANGED notAsVars

\* lines 429-433
convertMarkdownToHtml_Substitute ==
    /\ as_pc = "parsed"
    /\ finalHtml' = SubstituteAll(as_htmlContent, placeholders)
    /\ as_pc' = "substituted"
    /\ UNCHANGED <<imageReplacements, files, as_k, placeholders, replacements,
                   processedContent, as_htmlContent, as_result>>
    /\ UNCHANGED <<markdownContent, shikiHighlighter>>
    /\ UNCHANGED notAsVars

\* line 436: highlightCodeBlocks(finalHtml) is called
convertMarkdownToHtml_Highlight ==
    /\ as_pc = "substituted"
    /\ html' = finalHtml
    /\ hl_pc' = "called"
    /\ codeBlocks' = <<>>
    /\ highlightedBlocks' = <<>>
    /\ blockOk' = <<>>
    /\ highlightedHtml' = <<>>
    /\ hl_result' = <<>>
    /\ as_pc' = "highlighting"
    /\ UNCHANGED <<imageReplacements, files, as_k, placeholders, replacements,
                   processedContent, as_htmlContent, finalHtml, as_result>>
    /\ UNCHANGED <<markdownContent, shikiHighlighter>>
    /\ UNCHANGED <<ex_pc, match, diagrams, iters, calls, firstResult, deVars, shVars, paVars,
                   programVars>>

\* line 438: highlightCodeBlocks returned, the document is wrapped
convertMarkdownToHtml_Wrap ==
    /\ as_pc = "highlighting"
    /\ hl_pc = "returned"
    /\ as_result' = wrapInHtmlDocument(hl_result, <<>>)
    /\ as_pc' = "returned"
    /\ UNCHANGED <<imageReplacements, files, as_k, placeholders, replacements,
                   processedContent, as_htmlContent, finalHtml>>
    /\ UNCHANGED <<markdownContent, shikiHighlighter>>
    /\ UNCHANGED notAsVars

\* line 436: highlightCodeBlocks rejected (no highlighter), and so does
\* convertMarkdownToHtml
convertMarkdownToHtml_HighlightThrew ==
    /\ as_pc = "highlighting"
    /\ hl_pc = "threw"
    /\ as_pc' = "threw"
    /\ UNCHANGED <<imageReplacements, files, as_k, placeholders, replacements,
                   processedContent, as_htmlContent, finalHtml, as_result>>
    /\ UNCHANGED <<markdownContent, shikiHighlighter>>
    /\ UNCHANGED notAsVars

InitAssemble ==
    /\ markdownContent \in Docs
    /\ \E input \in OutcomeMaps(markdownContent) :
          /\ imageReplacements = input.entries
          /\ files = input.files
    /\ as_pc = "matching"
    /\ as_k = 0
    /\ placeholders = <<>>
    /\ replacements = <<>>
    /\ processedContent = markdownContent
    /\ as_htmlContent = <<>>
    /\ finalHtml = <<>>
    /\ as_result = <<>>
    /\ ex_pc = "off"
    /\ match = NoMatch
    /\ diagrams = <<>>
    /\ iters = 0
    /\ calls = 0
    /\ firstResult = <<>>
    /\ DecodeIdle
    /\ PathIdle
    /\ HighlightIdle
    /\ ProgramIdle

NextAssemble ==
    \/ convertMarkdownToHtml_Match
    \/ convertMarkdownToHtml_Splice
    \/ convertMarkdownToHtml_Micromark
    \/ convertMarkdownToHtml_Substitute
    \/ convertMarkdownToHtml_Highlight
    \/ NextHighlight
    \/ convertMarkdownToHtml_Wrap
    \/ convertMarkdownToHtml_HighlightThrew

SpecAssemble == InitAssemble /\ [][NextAssemble]_vars

(***************************************************************************)
(* MermaidRenderer, src/unnamed/part_000.                                  *)
(***************************************************************************)
\* what the rendering tool may leave at the output path when it exits with
\* status 0: nothing, or a content
ToolProducts == {<<>>} \cup SvgContents

\* what it may leave when it fails or is killed at the timeout
PartialProducts == {<<>>, <<"<", "s", "v", "g", ">", "a", "<", "/", "s", "v", "g", ">">>}

\* the tool writes its product, if any, to the output path
ToolWrites(fs, path, product, run, code) ==
    IF product = <<>> THEN fs
    ELSE {f \in fs : f.path # path}
           \cup {[path |-> path, svg |-> product, run |-> run, code |-> code]}

\* lines 44-46: the temporary directory is created when the field is null;
\* mkdtemp makes a new, empty directory, files holds what is in the
\* directory the field names
renderMermaidToSvg_Mkdtemp ==
    /\ rn_pc = "called"
    /\ IF tempDir = "null"
       THEN tempDir' = "dir" /\ dirOnDisk' = TRUE /\ files' = {}
       ELSE UNCHANGED <<tempDir, dirOnDisk, files>>
    /\ rn_pc' = "writing"
    /\ UNCHANGED <<rn_id, rn_code, rn_result, rn_exit, inFlight, runs>>
    /\ UNCHANGED <<as_pc, imageReplacements, as_k, placeholders, replacements,
                   processedContent, as_htmlContent, finalHtml, as_result>>
    /\ UNCHANGED <<exVars, deVars, shVars, paVars, hlVars, cvVars, cliVars>>

\* line 45: mkdtemp rejects; the await is outside the try statement, the
\* call rejects
renderMermaidToSvg_MkdtempThrows ==
    /\ rn_pc = "called"
    /\ tempDir = "null"
    /\ rn_pc' = "threw"
    /\ UNCHANGED <<tempDir, dirOnDisk, rn_id, rn_code, rn_result, rn_exit, inFlight, runs>>
    /\ UNCHANGED <<exVars, deVars, shVars, paVars, hlVars, asVars, cvVars, cliVars>>

\* lines 48-61: the source file is written and the tool is started
renderMermaidToSvg_WriteSource ==
    /\ rn_pc = "writing"
    /\ inFlight' = inFlight + 1
    /\ runs' = runs + 1
    /\ rn_pc' = "running"
    /\ UNCHANGED <<tempDir, dirOnDisk, rn_id, rn_code, rn_result, rn_exit>>
    /\ UNCHANGED <<exVars, deVars, shVars, paVars, hlVars, asVars, cvVars, cliVars>>

\* line 51: writeFile rejects; the await is outside the try statement, the
\* call rejects
renderMermaidToSvg_WriteSourceThrows ==
    /\ rn_pc = "writing"
    /\ rn_pc' = "threw"
    /\ UNCHANGED <<tempDir, dirOnDisk, rn_id, rn_code, rn_result, rn_exit, inFlight, runs>>
    /\ UNCHANGED <<exVars, deVars, shVars, paVars, hlVars, asVars, cvVars, cliVars>>

\* lines 54-65 and 81: the tool exits with status 0; the path is returned
\* if a file is at the output path, null otherwise
renderMermaidToSvg_Exec ==
    /\ rn_pc = "running"
    /\ \E product \in ToolProducts :
          files' = ToolWrites(files, TempPath(rn_id), product, runs, rn_code)
    /\ rn_result' = IF FileAt(files', TempPath(rn_id)) # NoFile
                    THEN TempPath(rn_id) ELSE <<>>
    /\ rn_exit' = "zero"
    /\ inFlight' = inFlight - 1
    /\ rn_pc' = "returned"
    /\ UNCHANGED <<tempDir, dirOnDisk, rn_id, rn_code, runs>>
    /\ UNCHANGED <<as_pc, imageReplacements, as_k, placeholders, replacements,
                   processedContent, as_htmlContent, finalHtml, as_result>>
    /\ UNCHANGED <<exVars, deVars, shVars, paVars, hlVars, cvVars, cliVars>>

\* lines 66, 72-78 and 81: the tool exits with another status (or cannot be
\* started): execFileAsync rejects, the error is logged, null is returned
renderMermaidToSvg_ExecFails ==
    /\ rn_pc = "running"
    /\ \E product \in PartialProducts :
          files' = ToolWrites(files, TempPath(rn_id), product, runs, rn_code)
    /\ rn_result' = <<>>
    /\ rn_exit' = "nonzero"
    /\ inFlight' = inFlight - 1
    /\ rn_pc' = "returned"
    /\ UNCHANGED <<tempDir, dirOnDisk, rn_id, rn_code, runs>>
    /\ UNCHANGED <<as_pc, imageReplacements, as_k, placeholders, replacements,
                   processedContent, as_htmlContent, finalHtml, as_result>>
    /\ UNCHANGED <<exVars, deVars, shVars, paVars, hlVars, cvVars, cliVars>>

\* a slip: at the timeout null is returned while the tool is left running
renderMermaidToSvg_ExecAbandoned ==
    /\ rn_pc = "running"
    /\ rn_result' = <<>>
    /\ rn_exit' = "timeout"
    /\ rn_pc' = "returned"
    /\ UNCHANGED <<tempDir, dirOnDisk, rn_id, rn_code, inFlight, runs>>
    /\ UNCHANGED <<exVars, deVars, shVars, paVars, hlVars, asVars, cvVars, cliVars>>

\* lines 58, 66-71 and 81: the tool is killed after MERMAID_RENDER_TIMEOUT_MS,
\* the timeout is logged, null is returned
renderMermaidToSvg_ExecTimesOut ==
    /\ rn_pc = "running"
    /\ \E product \in PartialProducts :
          files' = ToolWrites(files, TempPath(rn_id), product, runs, rn_code)
    /\ rn_result' = <<>>
    /\ rn_exit' = "timeout"
    /\ inFlight' = inFlight - 1
    /\ rn_pc' = "returned"
    /\ UNCHANGED <<tempDir, dirOnDisk, rn_id, rn_code, runs>>
    /\ UNCHANGED <<as_pc, imageReplacements, as_k, placeholders, replacements,
                   processedContent, as_htmlContent, finalHtml, as_result>>
    /\ UNCHANGED <<exVars, deVars, shVars, paVars, hlVars, cvVars, cliVars>>

\* lines 88-91 and 99: the directory is removed, the field is cleared
cleanup_Remove ==
    /\ cli_pc = "finally"
    /\ tempDir # "null"
    /\ dirOnDisk' = FALSE
    /\ files' = {}
    /\ tempDir' = "null"
    /\ cleanupCalls' = cleanupCalls + 1
    /\ cli_pc' = "cleaned"
    /\ UNCHANGED <<rn_pc, rn_id, rn_code, rn_result, rn_exit, inFlight, runs, exitCode>>
    /\ UNCHANGED <<as_pc, imageReplacements, as_k, placeholders, replacements,
                   processedContent, as_htmlContent, finalHtml, as_result>>
    /\ UNCHANGED <<exVars, deVars, shVars, paVars, hlVars, cvVars>>

\* lines 88-99: rm rejects, a warning is logged, the field is cleared
cleanup_RemoveFails ==
    /\ cli_pc = "finally"
    /\ tempDir # "null"
    /\ tempDir' = "null"
    /\ cleanupCalls' = cleanupCalls + 1
    /\ cli_pc' = "cleaned"
    /\ UNCHANGED <<dirOnDisk, rn_pc, rn_id, rn_code, rn_result, rn_exit, inFlight, runs,
                   exitCode>>
    /\ UNCHANGED <<exVars, deVars, shVars, paVars, hlVars, asVars, cvVars>>

\* line 88: no temporary directory was created, nothing to do
cleanup_NoTempDir ==
    /\ cli_pc = "finally"
    /\ tempDir = "null"
    /\ cleanupCalls' = cleanupCalls + 1
    /\ cli_pc' = "cleaned"
    /\ UNCHANGED <<exitCode>>
    /\ UNCHANGED <<exVars, deVars, shVars, paVars, hlVars, asVars, rnVars, cvVars>>

(***************************************************************************)
(* convert, lines 449-486, and the command handler of the CLI,             *)
(* src/src/cli.ts lines 35-56.                                             *)
(***************************************************************************)
\* Map.prototype.set on the outcomes map, kept in insertion order
OutcomeSet(entries, startPos, diagramId, imagePath) ==
    LET e == [startPos |-> startPos, diagramId |-> diagramId, imagePath |-> imagePath]
    IN  IF \E k \in 1..Len(entries) : entries[k].startPos = startPos
        THEN [k \in 1..Len(entries) |->
                IF entries[k].startPos = startPos THEN e ELSE entries[k]]
        ELSE Append(entries, e)

\* line 450: the input file is read; line 451: extractMermaidDiagrams is
\* called on its text
convert_Read ==
    /\ cv_pc = "called"
    /\ markdownContent' = inputFileText
    /\ ex_pc' = "idle"
    /\ cv_pc' = "extracting"
    /\ UNCHANGED <<match, diagrams, iters, calls, firstResult>>
    /\ UNCHANGED <<inputFileText, cv_i, renders>>
    /\ UNCHANGED <<deVars, shVars, paVars, hlVars, asVars, rnVars, cliVars>>

\* line 450: readFile rejects, convert rejects with it
convert_ReadFails ==
    /\ cv_pc = "called"
    /\ cv_pc' = "threw"
    /\ UNCHANGED <<inputFileText, cv_i, renders>>
    /\ UNCHANGED <<exVars, deVars, shVars, paVars, hlVars, asVars, rnVars, cliVars>>

\* lines 451-456: extractMermaidDiagrams returned, the outcomes map is
\* created, the render loop starts
convert_Extracted ==
    /\ cv_pc = "extracting"
    /\ ex_pc = "done"
    /\ imageReplacements' = <<>>
    /\ cv_i' = 0
    /\ cv_pc' = "rendering"
    /\ UNCHANGED <<inputFileText, renders>>
    /\ UNCHANGED <<as_pc, files, as_k, placeholders, replacements,
                   processedContent, as_htmlContent, finalHtml, as_result>>
    /\ UNCHANGED <<exVars, deVars, shVars, paVars, hlVars, rnVars, cliVars>>

\* lines 457-459: the next diagram is handed to the renderer
convert_CallRender ==
    /\ cv_pc = "rendering"
    /\ cv_i < Len(diagrams)
    /\ rn_id' = diagrams[cv_i + 1].diagramId
    /\ rn_code' = diagrams[cv_i + 1].mermaidCode
    /\ rn_result' = <<>>
    /\ rn_exit' = "none"
    /\ rn_pc' = "called"
    /\ renders' = Append(renders, diagrams[cv_i + 1].diagramId)
    /\ cv_pc' = "awaitRender"
    /\ UNCHANGED <<tempDir, dirOnDisk, inFlight, runs>>
    /\ UNCHANGED <<inputFileText, cv_i>>
    /\ UNCHANGED <<exVars, deVars, shVars, paVars, hlVars, asVars, cliVars>>

\* lines 459-470: the renderer returned a path or null, the outcome is
\* recorded under the start offset of the diagram
convert_RenderReturned ==
    /\ cv_pc = "awaitRender"
    /\ rn_pc = "returned"
    /\ imageReplacements' = OutcomeSet(imageReplacements, diagrams[cv_i + 1].startPos,
                                       diagrams[cv_i + 1].diagramId, rn_result)
    /\ cv_i' = cv_i + 1
    /\ rn_pc' = "off"
    /\ cv_pc' = "rendering"
    /\ UNCHANGED <<tempDir, dirOnDisk, rn_id, rn_code, rn_result, rn_exit, inFlight, runs>>
    /\ UNCHANGED <<inputFileText, renders>>
    /\ UNCHANGED <<as_pc, files, as_k, placeholders, replacements,
                   processedContent, as_htmlContent, finalHtml, as_result>>
    /\ UNCHANGED <<exVars, deVars, shVars, paVars, hlVars, cliVars>>

\* line 459: the await of renderMermaidToSvg rejects, convert rejects with it
convert_RenderThrew ==
    /\ cv_pc = "awaitRender"
    /\ rn_pc = "threw"
    /\ cv_pc' = "threw"
    /\ UNCHANGED <<inputFileText, cv_i, renders>>
    /\ UNCHANGED <<exVars, deVars, shVars, paVars, hlVars, asVars, rnVars, cliVars>>

\* lines 471-474 and 379-381: the loop is over, convertMarkdownToHtml is
\* called on the text and the outcomes map
convert_Assemble ==
    /\ cv_pc = "rendering"
    /\ cv_i = Len(diagrams)
    /\ as_pc' = "matching"
    /\ as_k' = 0
    /\ placeholders' = <<>>
    /\ replacements' = <<>>
    /\ processedContent' = markdownContent
    /\ as_htmlContent' = <<>>
    /\ finalHtml' = <<>>
    /\ as_result' = <<>>
    /\ cv_pc' = "assembling"
    /\ UNCHANGED <<imageReplacements, files>>
    /\ UNCHANGED <<inputFileText, cv_i, renders>>
    /\ UNCHANGED <<exVars, deVars, shVars, paVars, hlVars, rnVars, cliVars>>

\* line 474: convertMarkdownToHtml returned the document
convert_Assembled ==
    /\ cv_pc = "assembling"
    /\ as_pc = "returned"
    /\ htmlContent' = as_result
    /\ pa_pc' = "assembled"
    /\ cv_pc' = "writing"
    /\ UNCHANGED <<markdownFile, outputFile, writtenTo, returned, writtenDoc>>
    /\ UNCHANGED <<inputFileText, cv_i, renders>>
    /\ UNCHANGED <<exVars, deVars, shVars, hlVars, asVars, rnVars, cliVars>>

\* line 474: the await of convertMarkdownToHtml rejects, convert rejects
convert_AssembleThrew ==
    /\ cv_pc = "assembling"
    /\ as_pc = "threw"
    /\ cv_pc' = "threw"
    /\ UNCHANGED <<inputFileText, cv_i, renders>>
    /\ UNCHANGED <<exVars, deVars, shVars, paVars, hlVars, asVars, rnVars, cliVars>>

\* cli.ts lines 39-42: the input file does not exist, process.exit(1)
main_InputMissing ==
    /\ cli_pc = "start"
    /\ cli_pc' = "exited"
    /\ exitCode' = 1
    /\ UNCHANGED cleanupCalls
    /\ UNCHANGED <<exVars, deVars, shVars, paVars, hlVars, asVars, rnVars, cvVars>>

\* cli.ts line 44 and part_000 lines 29-34: the constructor of the renderer
\* throws (no mermaid CLI installed); main rejects, process.exit(1) at
\* cli.ts lines 68-71
main_RendererMissing ==
    /\ cli_pc = "start"
    /\ cli_pc' = "exited"
    /\ exitCode' = 1
    /\ UNCHANGED cleanupCalls
    /\ UNCHANGED <<exVars, deVars, shVars, paVars, hlVars, asVars, rnVars, cvVars>>

\* cli.ts lines 39-48: the input exists, renderer and converter are
\* constructed, convert is called
main_Convert ==
    /\ cli_pc = "start"
    /\ cli_pc' = "converting"
    /\ cv_pc' = "called"
    /\ UNCHANGED <<exitCode, cleanupCalls>>
    /\ UNCHANGED <<inputFileText, cv_i, renders>>
    /\ UNCHANGED <<exVars, deVars, shVars, paVars, hlVars, asVars, rnVars>>

\* cli.ts lines 48 and 53-54: convert returned, the finally block is entered
main_ConvertReturned ==
    /\ cli_pc = "converting"
    /\ pa_pc = "returned"
    /\ cli_pc' = "finally"
    /\ UNCHANGED <<exitCode, cleanupCalls>>
    /\ UNCHANGED <<exVars, deVars, shVars, paVars, hlVars, asVars, rnVars, cvVars>>

\* cli.ts lines 49-52: convert rejected; the catch block logs the error and
\* calls process.exit(1), which ends the process there: the finally block
\* is not run
main_Catch ==
    /\ cli_pc = "converting"
    /\ cv_pc = "threw" \/ pa_pc = "threw"
    /\ cli_pc' = "exited"
    /\ exitCode' = 1
    /\ UNCHANGED cleanupCalls
    /\ UNCHANGED <<exVars, deVars, shVars, paVars, hlVars, asVars, rnVars, cvVars>>

\* cli.ts lines 55-56: the handler returns, the process ends with status 0
main_Return ==
    /\ cli_pc = "cleaned"
    /\ cli_pc' = "exited"
    /\ exitCode' = 0
    /\ UNCHANGED cleanupCalls
    /\ UNCHANGED <<exVars, deVars, shVars, paVars, hlVars, asVars, rnVars, cvVars>>

\* the input files of the runs
ProgramDocPieces == {<<"a">> \o NL, FullFence \o NL, BlankFence \o NL}

ProgramDocs == {Concat(ps) : ps \in PieceSeqs(ProgramDocPieces, MaxProgramPieces)}

\* md-to-html a.md, with or without -o o.html
CliInput == <<"a", ".", "m", "d">>
CliOutputs == {Undefined, <<"o", ".", "h", "t", "m", "l">>}

Init ==
    /\ cli_pc = "start"
    /\ exitCode = -1
    /\ cleanupCalls = 0
    /\ inputFileText \in ProgramDocs
    /\ cv_pc = "off"
    /\ cv_i = 0
    /\ renders = <<>>
    /\ markdownFile = CliInput
    /\ outputFile \in CliOutputs
    /\ pa_pc = "off"
    /\ writtenTo = {}
    /\ returned = Undefined
    /\ htmlContent = <<>>
    /\ writtenDoc = <<>>
    /\ RenderIdle
    /\ ShikiIdle
    /\ ExtractIdle
    /\ DecodeIdle
    /\ HighlightIdle
    /\ AssembleIdle

Next ==
    \/ main_InputMissing
    \/ main_RendererMissing
    \/ main_Convert
    \/ convert_Read
    \/ convert_ReadFails
    \/ extractMermaidDiagrams_Call
    \/ extractMermaidDiagrams_Loop
    \/ extractMermaidDiagrams_Return
    \/ convert_Extracted
    \/ convert_CallRender
    \/ renderMermaidToSvg_Mkdtemp
    \/ renderMermaidToSvg_MkdtempThrows
    \/ renderMermaidToSvg_WriteSource
    \/ renderMermaidToSvg_WriteSourceThrows
    \/ renderMermaidToSvg_Exec
    \/ renderMermaidToSvg_ExecFails
    \/ renderMermaidToSvg_ExecTimesOut
    \/ convert_RenderReturned
    \/ convert_RenderThrew
    \/ convert_Assemble
    \/ NextAssemble
    \/ convert_Assembled
    \/ convert_AssembleThrew
    \/ NextPath
    \/ main_ConvertReturned
    \/ main_Catch
    \/ cleanup_Remove
    \/ cleanup_RemoveFails
    \/ cleanup_NoTempDir
    \/ main_Return

Spec == Init /\ [][Next]_vars

(***************************************************************************)
(* Fences of a text, stated apart from the scanning loop.                  *)
(***************************************************************************)
\* t is one diagram fence: the opening delimiter, whitespace holding a
\* newline, a body, and the first closing delimiter after the body start
IsFenceText(t) ==
    /\ Len(t) >= Len(FenceOpen) + 1 + Len(FenceClose)
    /\ StartsWithAt(t, 0, FenceOpen)
    /\ StartsWithAt(t, Len(t) - Len(FenceClose), FenceClose)
    /\ \E n \in Len(FenceOpen)..(Len(t) - Len(FenceClose) - 1) :
          /\ t[n + 1] = "\n"
          /\ \A j \in Len(FenceOpen)..n : IsSpace(t[j + 1])
          /\ \A j \in Len(FenceOpen)..(Len(t) - Len(FenceClose) - 1) :
                StartsWithAt(t, j, FenceClose) => j < n

\* the body of a fence: what lies between its two delimiters
FenceBody(s, m) == Slice(s, m.index + Len(FenceOpen), m.end - Len(FenceClose))

NonEmptyFences(s) == SelectSeq(FencesFrom(s, 0), LAMBDA m : Trim(FenceBody(s, m)) # <<>>)

(***************************************************************************)
(* Claims about extractMermaidDiagrams (under SpecExtract).                *)
(***************************************************************************)
\* C1: the scan of a finite markdown input terminates: the loop body runs at
\* most once per fence of the input, also for a fence whose body is empty or
\* whitespace only, and the returned sequence holds one record per fence
\* with a non-empty body (the fences after an empty one included) and none
\* for an empty one.
C1_ScanReturns ==
    /\ iters <= Len(FencesFrom(markdownContent, 0))
    /\ ex_pc = "done" =>
          /\ Len(diagrams) = Len(NonEmptyFences(markdownContent))
          /\ \A i \in 1..Len(diagrams) : diagrams[i].mermaidCode # <<>>

\* C7: a returned sequence has one record per fence in text order, the i-th
\* (0-based) with id diagram_i, the start of the i-th fence and that fence's
\* body trimmed; a second call on the same input returns the same sequence.
C7_RecordsInOrder ==
    ex_pc = "done" =>
        LET fences == FencesFrom(markdownContent, 0)
        IN  /\ Len(diagrams) = Len(fences)
            /\ \A i \in 1..Len(diagrams) :
                  /\ diagrams[i].diagramId =
                        <<"d", "i", "a", "g", "r", "a", "m", "_">> \o DecimalDigits(i - 1)
                  /\ diagrams[i].startPos = fences[i].index
                  /\ diagrams[i].mermaidCode = Trim(FenceBody(markdownContent, fences[i]))
                  /\ diagrams[i].mermaidCode # <<>>
            /\ calls = 2 => diagrams = firstResult

\* two calls returned, two records each, and trimming removed something
C7_Witness ==
    /\ ex_pc = "done"
    /\ calls = 2
    /\ Len(diagrams) = 2
    /\ \E i \in 1..2 :
          diagrams[i].mermaidCode #
              FenceBody(markdownContent, FencesFrom(markdownContent, 0)[i])

\* C8: the slice [startPos, endPos) of the markdown is exactly one fence
\* text, opening delimiter through closing delimiter, and the intervals of
\* the records are disjoint and increase along the sequence.
C8_SlicesAreFences ==
    \A i \in 1..Len(diagrams) :
        /\ diagrams[i].startPos >= 0
        /\ diagrams[i].startPos < diagrams[i].endPos
        /\ diagrams[i].endPos <= Len(markdownContent)
        /\ IsFenceText(Slice(markdownContent, diagrams[i].startPos, diagrams[i].endPos))
        /\ \A j \in 1..Len(diagrams) :
              i < j => diagrams[i].endPos <= diagrams[j].startPos

\* a call returned two records with text between the two fences
C8_Witness ==
    /\ ex_pc = "done"
    /\ Len(diagrams) = 2
    /\ diagrams[1].endPos < diagrams[2].startPos

(***************************************************************************)
(* Claims about decodeHtmlEntities (under SpecDecode).                     *)
(***************************************************************************)
\* C10: decodeHtmlEntities is a left inverse of the escaping of the five
\* characters: decoding the escaped form of a text gives the text back.
C10_DecodeInvertsEncode ==
    de_pc = "decoded" => de_decoded = de_source

(***************************************************************************)
(* Claims about the output path of convert (under SpecPath).               *)
(***************************************************************************)
\* offset of the dot that starts the extension of a path (the last dot of
\* the last path segment, not its first character), or -1
ExtensionStart(path) ==
    LET dots == {i \in 0..(Len(path) - 1) :
                    /\ path[i + 1] = "."
                    /\ i > 0
                    /\ path[i] # "/"
                    /\ \A j \in (i + 1)..(Len(path) - 1) : path[j + 1] \notin {".", "/"}}
    IN  IF dots = {} THEN -1 ELSE CHOOSE i \in dots : TRUE

\* the path with its extension replaced by .html
WithHtmlExtension(path) ==
    IF ExtensionStart(path) < 0 THEN path \o DotHtml
    ELSE Slice(path, 0, ExtensionStart(path)) \o DotHtml

\* C6: convert without outputPath writes the document to, and returns, the
\* input path with its extension replaced by .html; with outputPath it
\* writes to and returns outputPath.
C6_OutputPath ==
    pa_pc = "returned" =>
        /\ returned = IF outputFile = Undefined
                      THEN WithHtmlExtension(markdownFile)
                      ELSE outputFile
        /\ writtenTo = {returned}

(***************************************************************************)
(* Claims about highlightCodeBlocks (under SpecHighlight).                 *)
(***************************************************************************)
RECURSIVE WithBlocksReplaced(_, _, _, _)
\* the text s from offset from on, the k-th and later code blocks replaced
\* in place: by the highlighter's markup where oks says it returned, by the
\* block's own text where it threw
WithBlocksReplaced(s, from, k, oks) ==
    LET m == CodeBlockExec(s, from)
    IN  IF m = NoBlock THEN Slice(s, from, Len(s))
        ELSE Slice(s, from, m.index)
             \o (IF oks[k] THEN CodeToHtml(decodeHtmlEntities(m.encodedCode))
                 ELSE Slice(s, m.index, m.end))
             \o WithBlocksReplaced(s, m.end, k + 1, oks)

\* C4: when the highlighter fails for a block the returned HTML holds that
\* block's original text, character for character, at the block's place,
\* whatever the text; the other blocks are highlighted or fall back on
\* their own, and a failing block never aborts the call.
C4_FallbackVerbatim ==
    /\ hl_pc = "returned" => hl_result = WithBlocksReplaced(html, 0, 1, blockOk)
    /\ hl_pc = "threw" => blockOk = <<>>

(***************************************************************************)
(* Claims about convertMarkdownToHtml (under SpecAssemble).                *)
(***************************************************************************)
RECURSIVE MatchAll(_, _, _, _)
\* the loop of lines 383-414 over the entries in the order given
MatchAll(md, entries, fs, acc) ==
    IF entries = <<>> THEN acc
    ELSE MatchAll(md, Tail(entries), fs, MatchEntry(md, Head(entries), fs, acc))

RECURSIVE InsertAscending(_, _)
InsertAscending(sorted, e) ==
    IF sorted = <<>> THEN <<e>>
    ELSE IF Head(sorted).startPos <= e.startPos
         THEN <<Head(sorted)>> \o InsertAscending(Tail(sorted), e)
         ELSE <<e>> \o sorted

RECURSIVE InTextOrder(_)
\* the entries of an outcomes map in ascending start offset
InTextOrder(entries) ==
    IF entries = <<>> THEN <<>>
    ELSE InsertAscending(InTextOrder(Tail(entries)), Head(entries))

\* the document convertMarkdownToHtml returns for the entries in this order
DocumentFor(md, entries, fs, oks) ==
    LET acc == MatchAll(md, entries, fs, [placeholders |-> <<>>, replacements |-> <<>>])
        spliced == SpliceAll(md, SortDescending(acc.replacements))
        substituted == SubstituteAll(Micromark(spliced), acc.placeholders)
    IN  wrapInHtmlDocument(HighlightCodeBlocksFn(substituted, oks), <<>>)

RECURSIVE WithFencesReplaced(_, _, _)
\* the text md from offset from on, every fence that has an entry replaced
\* by the placeholder of that entry, everything else as it is
WithFencesReplaced(md, from, entries) ==
    LET m == MermaidExec(md, from)
    IN  IF m = NoMatch THEN Slice(md, from, Len(md))
        ELSE LET hits == {k \in 1..Len(entries) : entries[k].startPos = m.index}
             IN  Slice(md, from, m.index)
                 \o (IF hits = {} THEN Slice(md, m.index, m.end)
                     ELSE MermaidPlaceholder(entries[CHOOSE k \in hits : TRUE].diagramId))
                 \o WithFencesReplaced(md, m.end, entries)

\* the splices are applied in strictly descending start offset and give the
\* original text with each matched fence replaced by its own placeholder
C9_SplicedText ==
    as_pc \in {"spliced", "parsed", "substituted", "returned"} =>
        /\ \A i, j \in 1..Len(replacements) :
              i < j => replacements[i].start > replacements[j].start
        /\ processedContent = WithFencesReplaced(markdownContent, 0, imageReplacements)

\* C9: for a fixed markdown text and a fixed set of outcomes the document
\* returned is the same for every iteration order of the outcomes map (it
\* is the document returned for the map in text order); the splices are
\* applied in strictly descending start offset and the placeholder-bearing
\* text is the original with each matched fence replaced by its placeholder.
C9_OrderIndependent ==
    /\ C9_SplicedText
    /\ as_pc = "returned" =>
          as_result = DocumentFor(markdownContent, InTextOrder(imageReplacements),
                                  files, blockOk)

(***************************************************************************)
(* A run of the CLI.                                                       *)
(***************************************************************************)
\* C2: when the process has ended after the renderer was constructed and
\* convert was started, renderer.cleanup() has been executed exactly once
\* and no temporary directory created by the renderer is left on disk.
C2_CleanupOnExit ==
    /\ cleanupCalls <= 1
    /\ (cli_pc = "exited" /\ cv_pc # "off") =>
          /\ cleanupCalls = 1
          /\ ~dirOnDisk

\* C3: renderMermaidToSvg never raises an exception to its caller: whatever
\* fails during a render, the call returns, and it returns the output path
\* or the failure signal null.
C3_RenderNeverThrows ==
    /\ rn_pc # "threw"
    /\ rn_pc = "returned" => rn_result \in {<<>>, TempPath(rn_id)}

\* s with the first occurrence of pat replaced by the text rep as it is
LiteralReplaceFirst(s, pat, rep) ==
    LET i == IndexOf(s, pat, 0)
    IN  IF i < 0 THEN s
        ELSE Slice(s, 0, i) \o rep \o Slice(s, i + Len(pat), Len(s))

RECURSIVE LiteralSubstituteAll(_, _)
LiteralSubstituteAll(h, entries) ==
    IF entries = <<>> THEN h
    ELSE LiteralSubstituteAll(
           LiteralReplaceFirst(h, Head(entries).placeholder, Head(entries).markup),
           Tail(entries))

\* the document for the outcomes recorded: the notice for a failed diagram,
\* the wrapped content of the artifact for a rendered one, in place of the
\* fences
ExpectedDocument ==
    LET tokens == Micromark(WithFencesReplaced(markdownContent, 0, imageReplacements))
        markups == [k \in 1..Len(imageReplacements) |->
                      [placeholder |-> MermaidPlaceholder(imageReplacements[k].diagramId),
                       markup |-> SvgHtml(imageReplacements[k].imagePath, files)]]
    IN  wrapInHtmlDocument(
          HighlightCodeBlocksFn(LiteralSubstituteAll(tokens, markups), blockOk), <<>>)

\* one render per diagram in text order, one outcome per diagram under its
\* start offset
C5_OneRenderEach ==
    cv_pc \in {"assembling", "writing"} =>
        /\ Len(renders) = Len(diagrams)
        /\ Len(imageReplacements) = Len(diagrams)
        /\ \A i \in 1..Len(diagrams) :
              /\ renders[i] = diagrams[i].diagramId
              /\ imageReplacements[i].startPos = diagrams[i].startPos
              /\ imageReplacements[i].diagramId = diagrams[i].diagramId

\* a run in which nothing but renders failed has written the document
C5_DocumentWritten ==
    (cli_pc = "exited" /\ ex_pc = "done" /\ as_pc # "threw" /\ pa_pc # "threw") =>
        writtenTo # {}

\* the document written holds the notices and the artifacts in place of the
\* fences, and no svg element when every render failed
C5_DocumentContent ==
    (pa_pc = "written" /\ cli_pc = "converting") =>
        /\ writtenDoc = ExpectedDocument
        /\ (\A k \in 1..Len(imageReplacements) : imageReplacements[k].imagePath = <<>>)
              => IndexOf(writtenDoc, <<"<", "s", "v", "g">>, 0) < 0

\* C5: for a document with N diagrams and any subset of them failing to
\* render, convert makes exactly one render call per diagram in text order,
\* records one outcome per diagram under its start offset, still writes
\* the output document, and the document has the rendering-failed notice in
\* place of each failed fence and the wrapped artifact content in place of
\* each rendered one; with every render failed it holds no svg element.
C5_RenderFailuresContained ==
    /\ C5_OneRenderEach
    /\ C5_DocumentWritten
    /\ C5_DocumentContent

(***************************************************************************)
(* Documents whose own text holds the text of a placeholder token.         *)
(***************************************************************************)
\* a line of prose that reads like the token of the first diagram
TokenLine == MermaidPlaceholder(DiagramId(0)) \o NL

TokenDocPieces == {TokenLine, <<"a">> \o NL, FullFence \o NL}

TokenDocs == {d \in {Concat(ps) : ps \in PieceSeqs(TokenDocPieces, MaxTokenPieces)} :
                 Len(FencesFrom(d, 0)) <= MaxDiagrams}

\* artifacts: a plain one, and one whose text reads like the token of the
\* first code block and is followed by a code block
TokenSvgContents ==
    {<<"<", "s", "v", "g", ">", "a", "<", "/", "s", "v", "g", ">">>,
     <<"<", "s", "v", "g", ">">> \o CodePlaceholder(0)
       \o CodeBlockHtml(<<"p", "y">>, <<"a">>) \o <<"<", "/", "s", "v", "g", ">">>}

\* the outcomes map as convert builds it: one entry per record, text order
TokenOutcomeMaps(md) ==
    LET recs == ExtractedRecords(md)
        n == Len(recs)
    IN  {[entries |-> [k \in 1..n |->
                         [startPos |-> recs[k].startPos,
                          diagramId |-> recs[k].diagramId,
                          imagePath |-> IF out[k] = <<"failed">> THEN <<>>
                                        ELSE TempPath(recs[k].diagramId)]],
          files |-> {[path |-> TempPath(recs[i].diagramId), svg |-> out[i],
                      run |-> 0, code |-> recs[i].mermaidCode] :
                       i \in {j \in 1..n : out[j] \in TokenSvgContents}}] :
            out \in [1..n -> {<<"failed">>} \cup TokenSvgContents]}

InitTokens ==
    /\ markdownContent \in TokenDocs
    /\ \E input \in TokenOutcomeMaps(markdownContent) :
          /\ imageReplacements = input.entries
          /\ files = input.files
    /\ as_pc = "matching"
    /\ as_k = 0
    /\ placeholders = <<>>
    /\ replacements = <<>>
    /\ processedContent = markdownContent
    /\ as_htmlContent = <<>>
    /\ finalHtml = <<>>
    /\ as_result = <<>>
    /\ ex_pc = "off"
    /\ match = NoMatch
    /\ diagrams = <<>>
    /\ iters = 0
    /\ calls = 0
    /\ firstResult = <<>>
    /\ DecodeIdle
    /\ PathIdle
    /\ HighlightIdle
    /\ ProgramIdle

SpecTokens == InitTokens /\ [][NextAssemble]_vars

\* one mark per entry of the outcomes map, each a single symbol that no
\* text holds
Marks == <<"@1", "@2", "@3", "@4">>

RECURSIVE WithFencesMarked(_, _, _)
\* the text md from offset from on, every fence that has an entry replaced
\* by the mark of that entry
WithFencesMarked(md, from, entries) ==
    LET m == MermaidExec(md, from)
    IN  IF m = NoMatch THEN Slice(md, from, Len(md))
        ELSE LET hits == {k \in 1..Len(entries) : entries[k].startPos = m.index}
             IN  Slice(md, from, m.index)
                 \o (IF hits = {} THEN Slice(md, m.index, m.end)
                     ELSE <<Marks[CHOOSE k \in hits : TRUE]>>)
                 \o WithFencesMarked(md, m.end, entries)

RECURSIVE MarksReplaced(_, _, _)
\* the text s with the mark of each entry replaced by the markup of the entry
MarksReplaced(s, entries, fs) ==
    IF s = <<>> THEN <<>>
    ELSE IF Len(s) = 1
         THEN LET hits == {k \in 1..Len(entries) : Marks[k] = s[1]}
              IN  IF hits = {} THEN s
                  ELSE SvgHtml(entries[CHOOSE k \in hits : TRUE].imagePath, fs)
    ELSE MarksReplaced(SubSeq(s, 1, Len(s) \div 2), entries, fs)
           \o MarksReplaced(SubSeq(s, Len(s) \div 2 + 1, Len(s)), entries, fs)

\* C11: every substitution replaces exactly the token occurrence the
\* pipeline inserted for that item: the text after the diagram substitution
\* is the engine's output with the markup of each diagram at the place of
\* its own fence (no markup lands in text of the document or in markup
\* already put in, no inserted token is left), and the text highlightCodeBlocks
\* returns has the markup of each code block at the place of that block.
C11_NoRematch ==
    /\ as_pc \in {"substituted", "highlighting", "returned", "threw"} =>
          finalHtml =
             MarksReplaced(
               Micromark(WithFencesMarked(markdownContent, 0, imageReplacements)),
               imageReplacements, files)
    /\ (as_pc = "highlighting" /\ hl_pc = "returned") =>
          hl_result = WithBlocksReplaced(html, 0, 1, blockOk)

\* C12: when the tool invocation did not time out, renderMermaidToSvg
\* returns the output path if and only if a file is at the output path
\* after the invocation ended, whatever the exit status of the tool.
C12_ExistenceDecides ==
    (rn_pc = "returned" /\ rn_exit \in {"zero", "nonzero"}) =>
        (rn_result = TempPath(rn_id) <=> FileAt(files, TempPath(rn_id)) # NoFile)

(***************************************************************************)
(* Calls of highlightCodeBlocks on one converter instance that may overlap *)
(* at the await of createHighlighter (lines 219-238 and 306-312).  Between *)
(* two awaits a call runs alone.                                           *)
(***************************************************************************)
shikiRest == <<exVars, deVars, paVars, asVars, rnVars, cvVars, cliVars,
               hl_pc, html, codeBlocks, highlightedBlocks, blockOk,
               highlightedHtml, hl_result>>

\* lines 283-309: the scan finds no code block, the input is returned
highlight_NoBlocks(c) ==
    /\ sh_pc[c] = "idle"
    /\ sh_blocks' = [sh_blocks EXCEPT ![c] = 0]
    /\ sh_calls' = [sh_calls EXCEPT ![c] = @ + 1]
    /\ sh_result' = [sh_result EXCEPT ![c] = "input"]
    /\ sh_pc' = [sh_pc EXCEPT ![c] = "returned"]
    /\ UNCHANGED <<createCalls, createRejected, everFound, shikiHighlighter>>
    /\ UNCHANGED shikiRest

\* lines 283-305, 312, 220 and 237, 314-364: blocks found, the highlighter
\* field is set, the blocks are highlighted
highlight_HighlighterReady(c) ==
    /\ sh_pc[c] = "idle"
    /\ shikiHighlighter # "null"
    /\ \E n \in 1..MaxBlocks : sh_blocks' = [sh_blocks EXCEPT ![c] = n]
    /\ sh_calls' = [sh_calls EXCEPT ![c] = @ + 1]
    /\ sh_result' = [sh_result EXCEPT ![c] = "highlighted"]
    /\ sh_pc' = [sh_pc EXCEPT ![c] = "returned"]
    /\ everFound' = TRUE
    /\ UNCHANGED <<createCalls, createRejected, shikiHighlighter>>
    /\ UNCHANGED shikiRest

\* lines 283-305, 312, 220-227: blocks found, the field is null,
\* createHighlighter is invoked and awaited
highlight_CreateHighlighter(c) ==
    /\ sh_pc[c] = "idle"
    /\ shikiHighlighter = "null"
    /\ \E n \in 1..MaxBlocks : sh_blocks' = [sh_blocks EXCEPT ![c] = n]
    /\ sh_calls' = [sh_calls EXCEPT ![c] = @ + 1]
    /\ createCalls' = createCalls + 1
    /\ sh_pc' = [sh_pc EXCEPT ![c] = "creating"]
    /\ everFound' = TRUE
    /\ UNCHANGED <<sh_result, createRejected, shikiHighlighter>>
    /\ UNCHANGED shikiRest

\* lines 227-228, 237, 314-364: createHighlighter resolved, the field is
\* assigned, the blocks are highlighted
createHighlighter_Resolves(c) ==
    /\ sh_pc[c] = "creating"
    /\ shikiHighlighter' = "highlighter"
    /\ sh_result' = [sh_result EXCEPT ![c] = "highlighted"]
    /\ sh_pc' = [sh_pc EXCEPT ![c] = "returned"]
    /\ UNCHANGED <<sh_blocks, sh_calls, createCalls, createRejected, everFound>>
    /\ UNCHANGED shikiRest

\* lines 231-235: createHighlighter rejected, the error is rethrown
createHighlighter_Rejects(c) ==
    /\ sh_pc[c] = "creating"
    /\ createRejected' = createRejected + 1
    /\ sh_pc' = [sh_pc EXCEPT ![c] = "threw"]
    /\ UNCHANGED <<sh_blocks, sh_calls, sh_result, createCalls, everFound,
                   shikiHighlighter>>
    /\ UNCHANGED shikiRest

\* the caller calls highlightCodeBlocks again
highlight_CallAgain(c) ==
    /\ sh_pc[c] \in {"returned", "threw"}
    /\ sh_calls[c] < MaxHighlightCalls
    /\ sh_pc' = [sh_pc EXCEPT ![c] = "idle"]
    /\ sh_result' = [sh_result EXCEPT ![c] = "none"]
    /\ UNCHANGED <<sh_blocks, sh_calls, createCalls, createRejected, everFound,
                   shikiHighlighter>>
    /\ UNCHANGED shikiRest

InitShiki ==
    /\ sh_pc = [c \in Callers |-> "idle"]
    /\ sh_blocks = [c \in Callers |-> 0]
    /\ sh_calls = [c \in Callers |-> 0]
    /\ sh_result = [c \in Callers |-> "none"]
    /\ createCalls = 0
    /\ createRejected = 0
    /\ everFound = FALSE
    /\ HighlightIdle
    /\ ExtractIdle
    /\ DecodeIdle
    /\ PathIdle
    /\ AssembleIdle
    /\ RenderIdle
    /\ ConvertIdle
    /\ CliIdle

NextShiki ==
    \E c \in Callers :
        \/ highlight_NoBlocks(c)
        \/ highlight_HighlighterReady(c)
        \/ highlight_CreateHighlighter(c)
        \/ createHighlighter_Resolves(c)
        \/ createHighlighter_Rejects(c)
        \/ highlight_CallAgain(c)

SpecShiki == InitShiki /\ [][NextShiki]_vars

\* C13: the highlighter is initialised once per converter instance and
\* only on first need: while no call has found a code block
\* createHighlighter has not been invoked and such a call returns its
\* input; over all calls that find one, overlapping or not,
\* createHighlighter is invoked a single time (as long as no invocation
\* has failed).
C13_InitialisedOnce ==
    /\ ~everFound => createCalls = 0
    /\ \A c \in Callers :
          (sh_pc[c] = "returned" /\ sh_blocks[c] = 0) => sh_result[c] = "input"
    /\ createRejected = 0 => createCalls <= 1

\* C14: at every moment of a convert call at most one invocation of the
\* rendering tool is in flight: the render of a diagram is started only
\* after the renders of all diagrams before it have returned, and assembly
\* and the output write start only after the last render has returned.
C14_RendersSerialized ==
    /\ inFlight <= 1
    /\ inFlight = 1 =>
          /\ rn_pc = "running"
          /\ cv_pc = "awaitRender"
    /\ cv_pc \in {"rendering", "awaitRender"} =>
          runs = cv_i + (IF rn_pc \in {"running", "returned"} THEN 1 ELSE 0)
    /\ (as_pc # "off" \/ pa_pc # "off") =>
          /\ inFlight = 0
          /\ rn_pc = "off"
          /\ cv_i = Len(diagrams)
          /\ runs = Len(diagrams)

\* the second render of a document is in flight, the first has returned
C14_Witness ==
    /\ inFlight = 1
    /\ runs = 2
    /\ cv_i = 1
    /\ Len(imageReplacements) = 1

(***************************************************************************)
(* One MermaidRenderer instance used for several renders: a caller calls   *)
(* renderMermaidToSvg and cleanup one after the other, as every convert    *)
(* of a converter does with ids that restart at diagram_0 (part_001 line   *)
(* 262).                                                                   *)
(***************************************************************************)
\* the ids and the sources the caller renders
RenderIds == {DiagramId(0), DiagramId(1)}
RenderCodes == {<<"a">>, <<"b">>}

\* renderMermaidToSvg(mermaidCode, id) is called, lines 43
caller_Render ==
    /\ rn_pc \in {"off", "returned", "threw"}
    /\ cli_pc \in {"off", "cleaned"}
    /\ runs < MaxRenderCalls
    /\ \E id \in RenderIds, code \in RenderCodes :
          /\ rn_id' = id
          /\ rn_code' = code
    /\ rn_result' = <<>>
    /\ rn_exit' = "none"
    /\ rn_pc' = "called"
    /\ UNCHANGED <<tempDir, dirOnDisk, inFlight, runs>>
    /\ UNCHANGED <<exVars, deVars, shVars, paVars, hlVars, asVars, cvVars, cliVars>>

\* cleanup() is called, line 87, by a caller that has taken the result of
\* its last render
caller_Cleanup ==
    /\ rn_pc \in {"returned", "threw"}
    /\ cli_pc \in {"off", "cleaned"}
    /\ cleanupCalls < MaxRenderCalls
    /\ rn_pc' = "off"
    /\ rn_result' = <<>>
    /\ rn_exit' = "none"
    /\ cli_pc' = "finally"
    /\ UNCHANGED <<tempDir, dirOnDisk, rn_id, rn_code, inFlight, runs>>
    /\ UNCHANGED <<exitCode, cleanupCalls>>
    /\ UNCHANGED <<exVars, deVars, shVars, paVars, hlVars, asVars, cvVars>>

InitRender ==
    /\ ExtractIdle
    /\ DecodeIdle
    /\ PathIdle
    /\ HighlightIdle
    /\ AssembleIdle
    /\ ProgramIdle

NextRender ==
    \/ caller_Render
    \/ renderMermaidToSvg_Mkdtemp
    \/ renderMermaidToSvg_MkdtempThrows
    \/ renderMermaidToSvg_WriteSource
    \/ renderMermaidToSvg_WriteSourceThrows
    \/ renderMermaidToSvg_Exec
    \/ renderMermaidToSvg_ExecFails
    \/ renderMermaidToSvg_ExecTimesOut
    \/ caller_Cleanup
    \/ cleanup_Remove
    \/ cleanup_RemoveFails
    \/ cleanup_NoTempDir

SpecRender == InitRender /\ [][NextRender]_vars

\* C15: a path that renderMermaidToSvg returns as success names a file that
\* this very invocation of the tool wrote from this invocation's source
\* code, never a file an earlier render left at the same path.
C15_ArtifactIsOwn ==
    (rn_pc = "returned" /\ rn_result # <<>>) =>
        /\ FileAt(files, rn_result).run = runs
        /\ FileAt(files, rn_result).code = rn_code

(***************************************************************************)
(* The extractor and the re-scan of the assembler on one text: the records *)
(* of extractMermaidDiagrams(md) become the keys of imageReplacements as   *)
(* convert builds it (part_001 lines 454-470), a caller may add a key that *)
(* is no record's start, and convertMarkdownToHtml runs its lines 379-421, *)
(* the part that reads the keys.                                           *)
(***************************************************************************)
RescanDocs == {Concat(ps) : ps \in PieceSeqs(MdPieces, MaxRescanPieces)}

\* the outcomes convert records when every render fails, in text order
FailedOutcomes(recs) ==
    [k \in 1..Len(recs) |->
        [startPos |-> recs[k].startPos,
         diagramId |-> recs[k].diagramId,
         imagePath |-> <<>>]]

\* offsets of md at which no record starts: the ends of the text and the
\* neighbours of the records' ends
StrayOffsets(md, recs) ==
    LET near == {0, Len(md)}
                  \cup UNION {{recs[k].startPos - 1, recs[k].startPos + 1,
                               recs[k].endPos - 1, recs[k].endPos} :
                              k \in 1..Len(recs)}
    IN  {p \in near : /\ p \in 0..Len(md)
                      /\ \A k \in 1..Len(recs) : recs[k].startPos # p}

\* the id of an outcome that belongs to no record
StrayId == <<"s", "t", "r", "a", "y">>

\* line 475 with lines 379-381: convertMarkdownToHtml is called with the
\* outcomes of the records, alone or with one more key that is no record's
\* start, set before or after them
convertMarkdownToHtml_Call ==
    /\ ex_pc = "done"
    /\ as_pc = "off"
    /\ \/ imageReplacements' = FailedOutcomes(diagrams)
       \/ \E p \in StrayOffsets(markdownContent, diagrams) :
             LET stray == [startPos |-> p, diagramId |-> StrayId, imagePath |-> <<>>]
             IN  \/ imageReplacements' = Append(FailedOutcomes(diagrams), stray)
                 \/ imageReplacements' = <<stray>> \o FailedOutcomes(diagrams)
    /\ processedContent' = markdownContent
    /\ placeholders' = <<>>
    /\ replacements' = <<>>
    /\ as_k' = 0
    /\ as_pc' = "matching"
    /\ UNCHANGED <<files, as_htmlContent, finalHtml, as_result>>
    /\ UNCHANGED <<markdownContent, shikiHighlighter>>
    /\ UNCHANGED notAsVars

InitRescan ==
    /\ markdownContent \in RescanDocs
    /\ ex_pc = "idle"
    /\ match = NoMatch
    /\ diagrams = <<>>
    /\ iters = 0
    /\ calls = 0
    /\ firstResult = <<>>
    /\ DecodeIdle
    /\ PathIdle
    /\ HighlightIdle
    /\ AssembleIdle
    /\ ProgramIdle

NextRescan ==
    \/ extractMermaidDiagrams_Call
    \/ extractMermaidDiagrams_Loop
    \/ extractMermaidDiagrams_Return
    \/ convertMarkdownToHtml_Call
    \/ convertMarkdownToHtml_Match
    \/ convertMarkdownToHtml_Splice

SpecRescan == InitRescan /\ [][NextRescan]_vars

RECURSIVE RecordSpans(_, _, _)
\* the spans of the records at which the first k outcomes start, in the
\* order of the outcomes
RecordSpans(entries, k, recs) ==
    IF k = 0 THEN <<>>
    ELSE LET e == entries[k]
             hit == {i \in 1..Len(recs) : recs[i].startPos = e.startPos}
         IN  RecordSpans(entries, k - 1, recs)
               \o (IF hit = {} THEN <<>>
                   ELSE LET r == recs[CHOOSE i \in hit : TRUE]
                        IN  <<[start |-> r.startPos, end |-> r.endPos,
                               placeholder |-> MermaidPlaceholder(e.diagramId)]>>)

RECURSIVE RecordsSpliced(_, _, _)
\* md with the span of each of the first n records replaced by the
\* placeholder of the record's id, from the last record to the first
RecordsSpliced(md, recs, n) ==
    IF n = 0 THEN md
    ELSE RecordsSpliced(Slice(md, 0, recs[n].startPos)
                          \o MermaidPlaceholder(recs[n].diagramId)
                          \o Slice(md, recs[n].endPos, Len(md)),
                        recs, n - 1)

\* C16: the re-scan of convertMarkdownToHtml agrees with the extractor: for
\* every record the extractor emitted the re-scan finds a fence at the
\* record's startPos and replaces exactly [startPos, endPos); an outcome
\* whose start offset is no fence's start yields no replacement, and the
\* text is changed at the records' spans only.
C16_RescanAgrees ==
    /\ as_pc = "matching" =>
          replacements = RecordSpans(imageReplacements, as_k, diagrams)
    /\ as_pc = "spliced" =>
          /\ \A k \in 1..Len(diagrams) :
                \E j \in 1..Len(replacements) :
                    /\ replacements[j].start = diagrams[k].startPos
                    /\ replacements[j].end = diagrams[k].endPos
          /\ Len(replacements) = Len(diagrams)
          /\ processedContent = RecordsSpliced(markdownContent, diagrams, Len(diagrams))

\* two records and an outcome that starts at no fence: two spans replaced
C16_Witness ==
    /\ as_pc = "spliced"
    /\ Len(diagrams) = 2
    /\ Len(imageReplacements) = 3
    /\ Len(replacements) = 2
    /\ processedContent # markdownContent

====
